---- MODULE Spec2Model ----
(***************************************************************************)
(* A model of tardigrade_constitutive_tools.cpp: the generalized-midpoint  *)
(* integrator (midpointEvolution and its Jacobian overloads) and the       *)
(* deformation-gradient evolution (evolveF / evolveFFlatJ).                *)
(*                                                                         *)
(* The library is a set of functions over flat row-major vectors that      *)
(* write their results through reference ("out") parameters and return an  *)
(* errorOut.  A behaviour of the model is one call: the caller's output    *)
(* variables hold some prior content (fresh, or left by an earlier call),  *)
(* then one overload runs on inputs drawn from small sets.                 *)
(*                                                                         *)
(* floatType is modelled by exact rationals <<numerator, denominator>> in  *)
(* lowest terms, plus one absorbing non-finite value (IEEE inf / nan, the  *)
(* result of dividing by a zero determinant).  Rounding is not modelled.   *)
(* A floatVector is a sequence; C++ index k is sequence index k + 1.       *)
(***************************************************************************)
EXTENDS Integers, Sequences, FiniteSets, TLC

VARIABLES pc, call, in, pre, out, err

vars == <<pc, call, in, pre, out, err>>

(***************************************************************************)
(* Bounds of the model.                                                    *)
(***************************************************************************)
\* the longest vector handed to midpointEvolution
MaxLen == 2

\* the number of sample 3x3 tensors handed to evolveF (besides the identity)
NumSamples == 2

(***************************************************************************)
(* floatType arithmetic.                                                   *)
(***************************************************************************)
NaN == <<0, 0>>

Abs(x) == IF x < 0 THEN -x ELSE x

RECURSIVE GCD(_, _)
GCD(a, b) == IF b = 0 THEN a ELSE GCD(b, a % b)

Norm(n, d) ==
    IF d = 0 THEN NaN
    ELSE LET g == GCD(Abs(n), Abs(d))
             s == IF d < 0 THEN -1 ELSE 1
         IN  <<(s * n) \div g, (s * d) \div g>>

R(n, d) == Norm(n, d)

Finite(x) == x[2] # 0

\* the sum over the least common denominator, which keeps the integers small
AddOver(x, y, g) == Norm(x[1] * (y[2] \div g) + y[1] * (x[2] \div g), (x[2] \div g) * y[2])

fAdd(x, y) == IF Finite(x) /\ Finite(y) THEN AddOver(x, y, GCD(x[2], y[2])) ELSE NaN

fNeg(x) == IF Finite(x) THEN <<-x[1], x[2]>> ELSE NaN

fSub(x, y) == fAdd(x, fNeg(y))

\* the product with the common factors g, h cancelled across first
MulOver(x, y, g, h) == Norm((x[1] \div g) * (y[1] \div h), (x[2] \div h) * (y[2] \div g))

fMul(x, y) ==
    IF Finite(x) /\ Finite(y) THEN MulOver(x, y, GCD(Abs(x[1]), y[2]), GCD(Abs(y[1]), x[2])) ELSE NaN

fDiv(x, y) == IF Finite(x) /\ Finite(y) THEN Norm(x[1] * y[2], x[2] * y[1]) ELSE NaN

fLeq(x, y) == Finite(x) /\ Finite(y) /\ x[1] * y[2] <= y[1] * x[2]

Zero == <<0, 1>>

One == <<1, 1>>

\* a std::vector holds its components: they are computed once, when it is built
Stored(v) == v \o <<>>

\* floatVector( n, v )
floatVector(n, v) == Stored([i \in 1..n |-> v])

\* scalar * vector and vector + vector of tardigrade_vector_tools
ScalarTimes(a, v) == Stored([i \in 1..Len(v) |-> fMul(a, v[i])])

VecAdd(u, v) == Stored([i \in 1..Len(u) |-> fAdd(u[i], v[i])])

\* a slip that fills the matrix column by column
inflate_byColumns(v, rows, cols) ==
    Stored([r \in 1..rows |-> Stored([c \in 1..cols |-> v[rows * (c - 1) + r]])])

\* tardigradeVectorTools::inflate( v, rows, cols ): the nested row view
inflate(v, rows, cols) == Stored([r \in 1..rows |-> Stored([c \in 1..cols |-> v[cols * (r - 1) + c]])])

(***************************************************************************)
(* errorOut: NULL on success, otherwise a chain of error nodes, the outer  *)
(* operation first.                                                        *)
(***************************************************************************)
NULL == <<>>

Failure(func, msg) == <<[func |-> func, msg |-> msg]>>

Catch(func, e) == <<[func |-> func, msg |-> "nested"]>> \o e

MsgPrevAndRates == "The size of the previous value of the vector and the two rates are not equal"

MsgAlphaSize == "The size of the alpha vector is not the same size as the previous vector value"

MsgAlphaRange == "Alpha must be between 0 and 1"

(***************************************************************************)
(* midpointEvolution, vector alpha (value only).                           *)
(* Each operator takes the inputs and the record o of the caller's output  *)
(* variables, and returns the record after the call with the errorOut in   *)
(* field err.                                                              *)
(***************************************************************************)
\* a slip that weights the current rate by alpha and the previous one by 1 - alpha
midpointIncrement_swapped(Dt, ai, DApDti, DADti) ==
    fMul(Dt, fAdd(fMul(ai, DADti), fMul(fSub(One, ai), DApDti)))

\* the loop body's assignment dA[ i ] = Dt * ( *ai * DApDt[ i ] + ( 1 - *ai ) * DADt[ i ] )
midpointIncrement(Dt, ai, DApDti, DADti) ==
    fMul(Dt, fAdd(fMul(ai, DApDti), fMul(fSub(One, ai), DADti)))

\* a slip that rejects the two ends of the range
alphaInRange_strict(ai) == ~fLeq(ai, Zero) /\ ~fLeq(One, ai)

\* the check inside the loop
alphaInRange(ai) == fLeq(Zero, ai) /\ fLeq(ai, One)

\* the for loop over alpha from position i (1-based) on; o carries dA, A
RECURSIVE midpointLoop(_, _, _, _, _, _, _)
midpointLoop(i, Dt, Ap, DApDt, DADt, alpha, o) ==
    IF i > Len(alpha) THEN [o EXCEPT !.err = NULL]
    ELSE IF ~alphaInRange(alpha[i]) THEN [o EXCEPT !.err = Failure("midpointEvolution", MsgAlphaRange)]
    ELSE LET dAi == midpointIncrement(Dt, alpha[i], DApDt[i], DADt[i])
         IN  midpointLoop(i + 1, Dt, Ap, DApDt, DADt, alpha,
                          [o EXCEPT !.dA[i] = dAi, !.A[i] = fAdd(Ap[i], dAi)])

midpointEvolution(Dt, Ap, DApDt, DADt, alpha, o) ==
    IF ~(Len(Ap) = Len(DApDt) /\ Len(Ap) = Len(DADt))
    THEN [o EXCEPT !.err = Failure("midpointEvolution", MsgPrevAndRates)]
    ELSE IF Len(Ap) # Len(alpha)
    THEN [o EXCEPT !.err = Failure("midpointEvolution", MsgAlphaSize)]
    ELSE midpointLoop(1, Dt, Ap, DApDt, DADt, alpha,
                      [o EXCEPT !.dA = floatVector(Len(Ap), Zero), !.A = floatVector(Len(Ap), Zero)])

(***************************************************************************)
(* midpointEvolution: the Jacobian overloads (vector alpha).               *)
(***************************************************************************)
\* a slip that drops the column offset and fills the first column
RECURSIVE diagonalLoop_firstColumn(_, _, _, _, _)
diagonalLoop_firstColumn(i, A_size, Dt, weights, J) ==
    IF i > Len(weights) THEN J
    ELSE diagonalLoop_firstColumn(i + 1, A_size, Dt, weights,
                                  [J EXCEPT ![A_size * (i - 1) + 1] = fMul(Dt, weights[i])])

\* the diagonal fill loop: J[ A_size * i + i ] = Dt * w( alpha_i ) on an A_size^2 vector of zeros
RECURSIVE diagonalLoop(_, _, _, _, _)
diagonalLoop(i, A_size, Dt, weights, J) ==
    IF i > Len(weights) THEN J
    ELSE diagonalLoop(i + 1, A_size, Dt, weights,
                      [J EXCEPT ![A_size * (i - 1) + (i - 1) + 1] = fMul(Dt, weights[i])])

\* 1 - alpha, component by component
oneMinus(alpha) == Stored([i \in 1..Len(alpha) |-> fSub(One, alpha[i])])

\* flat DADADt: what follows the call of the value-only overload, whose result is r
fillDADADt(r, Dt, alpha) ==
    IF r.err # NULL THEN [r EXCEPT !.err = Catch("midpointEvolutionFlatJ", r.err)]
    ELSE [r EXCEPT !.DADADt = diagonalLoop(1, Len(r.A), Dt, oneMinus(alpha),
                                           floatVector(Len(r.A) * Len(r.A), Zero))]

midpointEvolutionFlatJ(Dt, Ap, DApDt, DADt, alpha, o) ==
    fillDADADt(midpointEvolution(Dt, Ap, DApDt, DADt, alpha, o), Dt, alpha)

\* nested DADADt: the flat overload runs on a local _DADADt, inflated on success
inflateDADADt(r, o) ==
    IF r.err # NULL
    THEN [r EXCEPT !.DADADt = o.DADADt, !.err = Catch("midpointEvolution", r.err)]
    ELSE [r EXCEPT !.DADADt = o.DADADt, !.mDADADt = inflate(r.DADADt, Len(r.A), Len(r.A))]

midpointEvolutionJ(Dt, Ap, DApDt, DADt, alpha, o) ==
    inflateDADADt(midpointEvolutionFlatJ(Dt, Ap, DApDt, DADt, alpha, [o EXCEPT !.DADADt = <<>>]), o)

\* flat DADADt and DADADtp
fillDADADtp(r, Dt, alpha) ==
    IF r.err # NULL THEN [r EXCEPT !.err = Catch("midpointEvolutionFlatJ", r.err)]
    ELSE [r EXCEPT !.DADADtp = diagonalLoop(1, Len(r.A), Dt, alpha,
                                            floatVector(Len(r.A) * Len(r.A), Zero))]

midpointEvolutionFlatJp(Dt, Ap, DApDt, DADt, alpha, o) ==
    fillDADADtp(midpointEvolutionFlatJ(Dt, Ap, DApDt, DADt, alpha, o), Dt, alpha)

\* nested DADADt and DADADtp: the flat overload runs on locals, inflated on success
inflateDADADtp(r, o) ==
    IF r.err # NULL
    THEN [r EXCEPT !.DADADt = o.DADADt, !.DADADtp = o.DADADtp,
                   !.err = Catch("midpointEvolution", r.err)]
    ELSE [r EXCEPT !.DADADt = o.DADADt, !.DADADtp = o.DADADtp,
                   !.mDADADt = inflate(r.DADADt, Len(r.A), Len(r.A)),
                   !.mDADADtp = inflate(r.DADADtp, Len(r.A), Len(r.A))]

midpointEvolutionJp(Dt, Ap, DApDt, DADt, alpha, o) ==
    inflateDADADtp(midpointEvolutionFlatJp(Dt, Ap, DApDt, DADt, alpha,
                                           [o EXCEPT !.DADADt = <<>>, !.DADADtp = <<>>]), o)

(***************************************************************************)
(* midpointEvolution: the scalar-alpha overloads, which broadcast          *)
(* alpha * floatVector( Ap.size( ), 1 ) and forward.                       *)
(***************************************************************************)
broadcastAlpha(alpha, Ap) == ScalarTimes(alpha, floatVector(Len(Ap), One))

midpointEvolutionScalar(Dt, Ap, DApDt, DADt, alpha, o) ==
    midpointEvolution(Dt, Ap, DApDt, DADt, broadcastAlpha(alpha, Ap), o)

midpointEvolutionFlatJScalar(Dt, Ap, DApDt, DADt, alpha, o) ==
    midpointEvolutionFlatJ(Dt, Ap, DApDt, DADt, broadcastAlpha(alpha, Ap), o)

midpointEvolutionFlatJpScalar(Dt, Ap, DApDt, DADt, alpha, o) ==
    midpointEvolutionFlatJp(Dt, Ap, DApDt, DADt, broadcastAlpha(alpha, Ap), o)

midpointEvolutionJScalar(Dt, Ap, DApDt, DADt, alpha, o) ==
    midpointEvolutionJ(Dt, Ap, DApDt, DADt, broadcastAlpha(alpha, Ap), o)

midpointEvolutionJpScalar(Dt, Ap, DApDt, DADt, alpha, o) ==
    midpointEvolutionJp(Dt, Ap, DApDt, DADt, broadcastAlpha(alpha, Ap), o)

(***************************************************************************)
(* 3x3 tensors, flat and row-major: component (i, j), 0-based, of M is     *)
(* M[ dim * i + j ] in the code and At(M, i, j) here.                      *)
(***************************************************************************)
dim == 3

sot_dim == dim * dim

At(M, i, j) == M[dim * i + j + 1]

\* the row and the column (0-based) of position n (1-based) of a flat tensor
RowOf(n) == (n - 1) \div dim

ColOf(n) == (n - 1) % dim

\* the Eigen product of two 3x3 maps
MatMul(A, B) ==
    Stored([n \in 1..sot_dim |->
        fAdd(fAdd(fMul(At(A, RowOf(n), 0), At(B, 0, ColOf(n))),
                  fMul(At(A, RowOf(n), 1), At(B, 1, ColOf(n)))),
             fMul(At(A, RowOf(n), 2), At(B, 2, ColOf(n))))])

\* Eigen's fixed-size 3x3 inverse: cofactors scaled by 1 / determinant; a zero
\* determinant gives non-finite components and no error
Cofactor(M, i, j) ==
    fSub(fMul(At(M, (i + 1) % dim, (j + 1) % dim), At(M, (i + 2) % dim, (j + 2) % dim)),
         fMul(At(M, (i + 1) % dim, (j + 2) % dim), At(M, (i + 2) % dim, (j + 1) % dim)))

Det3(M) ==
    fAdd(fAdd(fMul(Cofactor(M, 0, 0), At(M, 0, 0)), fMul(Cofactor(M, 1, 0), At(M, 1, 0))),
         fMul(Cofactor(M, 2, 0), At(M, 2, 0)))

ScaledCofactors(M, invdet) == Stored([n \in 1..sot_dim |-> fMul(Cofactor(M, ColOf(n), RowOf(n)), invdet)])

Inverse3(M) == ScaledCofactors(M, fDiv(One, Det3(M)))

\* for ( i < dim ) M[ dim * i + i ] += 1
AddEye(M) == Stored([n \in 1..sot_dim |-> IF RowOf(n) = ColOf(n) THEN fAdd(M[n], One) ELSE M[n]])

(***************************************************************************)
(* evolveF: the value-only overloads.                                      *)
(***************************************************************************)
MsgFpSize == "The deformation gradient doesn't have enough terms (require 9 for 3D)"

MsgLpSize == "The previous velocity gradient and deformation gradient aren't the same size"

MsgLSize == "The previous deformation gradient and the current velocity gradient aren't the same size"

MsgMode == "The mode of evolution is not recognized"

\* a slip that weights the two velocity gradients the other way round
LtpAlphaOf_swapped(alpha, Lp, L) == VecAdd(ScalarTimes(alpha, L), ScalarTimes(fSub(One, alpha), Lp))

\* LtpAlpha = alpha * Lp + ( 1 - alpha ) * L
LtpAlphaOf(alpha, Lp, L) == VecAdd(ScalarTimes(alpha, Lp), ScalarTimes(fSub(One, alpha), L))

\* RHS = Dt * ( Lt * Fp ) in mode 1, Dt * ( Fp * Lt ) in mode 2
RHSOf(Dt, Fp, Lt, mode) ==
    ScalarTimes(Dt, IF mode = 1 THEN MatMul(Lt, Fp)
                    ELSE IF mode = 2 THEN MatMul(Fp, Lt)
                    ELSE floatVector(sot_dim, Zero))

\* invLHS = ( -Dt * ( 1 - alpha ) * L + eye )^{-1}
invLHSOf(Dt, alpha, L) == Inverse3(AddEye(ScalarTimes(fMul(fNeg(Dt), fSub(One, alpha)), L)))

\* a slip that multiplies on the same side in both modes
solveIncrement_leftOnly(invLHS, RHS, mode) == MatMul(invLHS, RHS)

\* dF = invLHS * RHS in mode 1, RHS * invLHS in mode 2
solveIncrement(invLHS, RHS, mode) ==
    IF mode = 1 THEN MatMul(invLHS, RHS)
    ELSE IF mode = 2 THEN MatMul(RHS, invLHS)
    ELSE floatVector(sot_dim, Zero)

\* a slip that returns the increment as the deformation gradient
storeF_incrementOnly(Fp, dF, o) == [o EXCEPT !.dF = dF, !.F = dF, !.err = NULL]

\* deformationGradient = previousDeformationGradient + dF
storeF(Fp, dF, o) == [o EXCEPT !.dF = dF, !.F = VecAdd(Fp, dF), !.err = NULL]

\* a slip that reallocates dF before the checks
evolveF_allocatesFirst(Dt, Fp, Lp, L, alpha, mode, o) ==
    IF Len(Fp) # sot_dim \/ Len(Lp) # Len(Fp) \/ Len(Fp) # Len(L) \/ ~(mode = 1 \/ mode = 2)
    THEN [o EXCEPT !.dF = floatVector(sot_dim, Zero), !.err = Failure("evolveF", MsgMode)]
    ELSE storeF(Fp, solveIncrement(invLHSOf(Dt, alpha, L),
                                   RHSOf(Dt, Fp, LtpAlphaOf(alpha, Lp, L), mode), mode), o)

evolveF(Dt, Fp, Lp, L, alpha, mode, o) ==
    IF Len(Fp) # sot_dim THEN [o EXCEPT !.err = Failure("evolveF", MsgFpSize)]
    ELSE IF Len(Lp) # Len(Fp) THEN [o EXCEPT !.err = Failure("evolveF", MsgLpSize)]
    ELSE IF Len(Fp) # Len(L) THEN [o EXCEPT !.err = Failure("evolveF", MsgLSize)]
    ELSE IF ~(mode = 1 \/ mode = 2) THEN [o EXCEPT !.err = Failure("evolveF", MsgMode)]
    ELSE storeF(Fp, solveIncrement(invLHSOf(Dt, alpha, L),
                                   RHSOf(Dt, Fp, LtpAlphaOf(alpha, Lp, L), mode), mode), o)

\* the overload without dF runs the one above on a local dF
dropLocal_dF(r, o) == [r EXCEPT !.dF = o.dF]

evolveFNoDF(Dt, Fp, Lp, L, alpha, mode, o) ==
    dropLocal_dF(evolveF(Dt, Fp, Lp, L, alpha, mode, [o EXCEPT !.dF = <<>>]), o)

(***************************************************************************)
(* evolveF: the Jacobian overloads.  A flat fourth-order tensor stores     *)
(* component (a, b, c, d) at dim * sot_dim * a + sot_dim * b + dim * c + d.*)
(***************************************************************************)
Ix1(n) == (n - 1) \div (dim * sot_dim)

Ix2(n) == ((n - 1) \div sot_dim) % dim

Ix3(n) == ((n - 1) \div dim) % dim

Ix4(n) == (n - 1) % dim

\* a slip that uses the transposed inverse in mode 1 and the transposed F in mode 2
dFdLOf_transposed(Dt, alpha, invLHS, F, mode) ==
    Stored([n \in 1..(sot_dim * sot_dim) |->
        IF mode = 1
        THEN fMul(fMul(fMul(Dt, fSub(One, alpha)), At(invLHS, Ix3(n), Ix1(n))), At(F, Ix4(n), Ix2(n)))
        ELSE fMul(fMul(fMul(Dt, fSub(One, alpha)), At(invLHS, Ix4(n), Ix2(n))), At(F, Ix3(n), Ix1(n)))])

\* the dFdL loops: with ( j, I, k, l ) = ( Ix1, Ix2, Ix3, Ix4 ),
\* mode 1: Dt * ( 1 - alpha ) * invLHS[ dim * j + k ] * F[ dim * l + I ]
\* mode 2: Dt * ( 1 - alpha ) * invLHS[ dim * _L + I ] * F[ dim * j + K ]
dFdLOf(Dt, alpha, invLHS, F, mode) ==
    Stored([n \in 1..(sot_dim * sot_dim) |->
        IF mode = 1
        THEN fAdd(Zero, fMul(fMul(fMul(Dt, fSub(One, alpha)), At(invLHS, Ix1(n), Ix3(n))), At(F, Ix4(n), Ix2(n))))
        ELSE IF mode = 2
        THEN fAdd(Zero, fMul(fMul(fMul(Dt, fSub(One, alpha)), At(invLHS, Ix4(n), Ix2(n))), At(F, Ix1(n), Ix3(n))))
        ELSE Zero])

\* the same loops as written in the full-tangent overload
dFdLOfFull(Dt, alpha, invLHS, F, mode) ==
    Stored([n \in 1..(sot_dim * sot_dim) |->
        IF mode = 1
        THEN fAdd(Zero, fMul(fMul(fMul(Dt, fSub(One, alpha)), At(invLHS, Ix1(n), Ix3(n))), At(F, Ix4(n), Ix2(n))))
        ELSE IF mode = 2
        THEN fAdd(Zero, fMul(fMul(fMul(Dt, fSub(One, alpha)), At(invLHS, Ix4(n), Ix2(n))), At(F, Ix1(n), Ix3(n))))
        ELSE Zero])

\* the dFdLp loops:
\* mode 1: invLHS[ dim * j + k ] * Dt * alpha * Fp[ dim * l + I ]
\* mode 2: Dt * alpha * invLHS[ dim * _L + I ] * Fp[ dim * j + K ]
dFdLpOf(Dt, alpha, invLHS, Fp, mode) ==
    Stored([n \in 1..(sot_dim * sot_dim) |->
        IF mode = 1
        THEN fAdd(Zero, fMul(fMul(fMul(At(invLHS, Ix1(n), Ix3(n)), Dt), alpha), At(Fp, Ix4(n), Ix2(n))))
        ELSE IF mode = 2
        THEN fAdd(Zero, fMul(fMul(fMul(Dt, alpha), At(invLHS, Ix4(n), Ix2(n))), At(Fp, Ix1(n), Ix3(n))))
        ELSE Zero])

\* the sum over the innermost loop index of the terms t[0], t[1], t[2] added to 0
Accumulate(t0, t1, t2) == fAdd(fAdd(fAdd(Zero, t0), t1), t2)

\* the ddFdFp loops:
\* mode 1: ddFdFp[ ( j, I, k, I ) ] += Dt * invLHS[ dim * j + l ] * LtpAlpha[ dim * l + k ]  over l
\* mode 2: ddFdFp[ ( j, I, j, K ) ] += Dt * LtpAlpha[ dim * K + _L ] * invLHS[ dim * _L + I ]  over _L
\* every other component keeps the 0 it was allocated with
ddFdFpOf(Dt, invLHS, Lt, mode) ==
    Stored([n \in 1..(sot_dim * sot_dim) |->
        IF mode = 1 /\ Ix4(n) = Ix2(n)
        THEN Accumulate(fMul(fMul(Dt, At(invLHS, Ix1(n), 0)), At(Lt, 0, Ix3(n))),
                        fMul(fMul(Dt, At(invLHS, Ix1(n), 1)), At(Lt, 1, Ix3(n))),
                        fMul(fMul(Dt, At(invLHS, Ix1(n), 2)), At(Lt, 2, Ix3(n))))
        ELSE IF mode = 2 /\ Ix3(n) = Ix1(n)
        THEN Accumulate(fMul(fMul(Dt, At(Lt, Ix4(n), 0)), At(invLHS, 0, Ix2(n))),
                        fMul(fMul(Dt, At(Lt, Ix4(n), 1)), At(invLHS, 1, Ix2(n))),
                        fMul(fMul(Dt, At(Lt, Ix4(n), 2)), At(invLHS, 2, Ix2(n))))
        ELSE Zero])

\* dFdFp = ddFdFp; for ( i < sot_dim ) dFdFp[ sot_dim * i + i ] += 1
AddEye4(J) ==
    Stored([n \in 1..(sot_dim * sot_dim) |->
        IF (n - 1) \div sot_dim = (n - 1) % sot_dim THEN fAdd(J[n], One) ELSE J[n]])

\* evolveFFlatJ( ..., dF, deformationGradient, dFdL, ... ): what follows the
\* call of evolveF, whose result is r
fill_dFdL(r, Dt, L, alpha, mode) ==
    IF r.err # NULL THEN [r EXCEPT !.err = Catch("evolveFFlatJ", r.err)]
    ELSE [r EXCEPT !.dFdL = dFdLOf(Dt, alpha, invLHSOf(Dt, alpha, L), r.F, mode)]

evolveFFlatJ(Dt, Fp, Lp, L, alpha, mode, o) ==
    fill_dFdL(evolveF(Dt, Fp, Lp, L, alpha, mode, o), Dt, L, alpha, mode)

evolveFFlatJNoDF(Dt, Fp, Lp, L, alpha, mode, o) ==
    dropLocal_dF(evolveFFlatJ(Dt, Fp, Lp, L, alpha, mode, [o EXCEPT !.dF = <<>>]), o)

\* evolveF( ..., dF, deformationGradient, floatMatrix dFdL, ... ): the flat
\* overload runs on a local _dFdL, inflated on success
inflate_dFdL(r, o) ==
    IF r.err # NULL
    THEN [r EXCEPT !.dFdL = o.dFdL, !.err = Catch("evolveF", r.err)]
    ELSE [r EXCEPT !.dFdL = o.dFdL, !.mdFdL = inflate(r.dFdL, sot_dim, sot_dim)]

evolveFJ(Dt, Fp, Lp, L, alpha, mode, o) ==
    inflate_dFdL(evolveFFlatJ(Dt, Fp, Lp, L, alpha, mode, [o EXCEPT !.dFdL = <<>>]), o)

evolveFJNoDF(Dt, Fp, Lp, L, alpha, mode, o) ==
    dropLocal_dF(evolveFJ(Dt, Fp, Lp, L, alpha, mode, [o EXCEPT !.dF = <<>>]), o)

\* a slip that leaves the identity out of dFdFp
storeTangents_noIdentity(r, dFdL, ddFdFp, dFdLp) ==
    [r EXCEPT !.dFdL = dFdL, !.ddFdFp = ddFdFp, !.dFdLp = dFdLp, !.dFdFp = ddFdFp]

storeTangents(r, dFdL, ddFdFp, dFdLp) ==
    [r EXCEPT !.dFdL = dFdL, !.ddFdFp = ddFdFp, !.dFdLp = dFdLp, !.dFdFp = AddEye4(ddFdFp)]

\* the tangents of the full overload, from the inverse computed once
tangentsFrom(r, Dt, Fp, Lt, alpha, mode, invLHS) ==
    storeTangents(r, dFdLOfFull(Dt, alpha, invLHS, r.F, mode),
                     ddFdFpOf(Dt, invLHS, Lt, mode),
                     dFdLpOf(Dt, alpha, invLHS, Fp, mode))

\* evolveFFlatJ( ..., dFdL, ddFdFp, dFdFp, dFdLp, ... ): what follows the call of evolveF
fillTangents(r, Dt, Fp, Lp, L, alpha, mode) ==
    IF r.err # NULL THEN [r EXCEPT !.err = Catch("evolveFFlatJ", r.err)]
    ELSE tangentsFrom(r, Dt, Fp, LtpAlphaOf(alpha, Lp, L), alpha, mode, invLHSOf(Dt, alpha, L))

evolveFFlatJFull(Dt, Fp, Lp, L, alpha, mode, o) ==
    fillTangents(evolveF(Dt, Fp, Lp, L, alpha, mode, o), Dt, Fp, Lp, L, alpha, mode)

\* the overload without dF and ddFdFp runs the one above on locals
dropLocal_ddFdFp(r, o) == [r EXCEPT !.dF = o.dF, !.ddFdFp = o.ddFdFp]

evolveFFlatJFullNoDF(Dt, Fp, Lp, L, alpha, mode, o) ==
    dropLocal_ddFdFp(evolveFFlatJFull(Dt, Fp, Lp, L, alpha, mode,
                                      [o EXCEPT !.dF = <<>>, !.ddFdFp = <<>>]), o)

\* the floatMatrix overloads run the flat one on locals, inflated on success
inflateTangents(r, o) ==
    IF r.err # NULL
    THEN [r EXCEPT !.dFdL = o.dFdL, !.ddFdFp = o.ddFdFp, !.dFdFp = o.dFdFp, !.dFdLp = o.dFdLp,
                   !.err = Catch("evolveF", r.err)]
    ELSE [r EXCEPT !.dFdL = o.dFdL, !.ddFdFp = o.ddFdFp, !.dFdFp = o.dFdFp, !.dFdLp = o.dFdLp,
                   !.mdFdL = inflate(r.dFdL, sot_dim, sot_dim),
                   !.mddFdFp = inflate(r.ddFdFp, sot_dim, sot_dim),
                   !.mdFdFp = inflate(r.dFdFp, sot_dim, sot_dim),
                   !.mdFdLp = inflate(r.dFdLp, sot_dim, sot_dim)]

evolveFJFull(Dt, Fp, Lp, L, alpha, mode, o) ==
    inflateTangents(evolveFFlatJFull(Dt, Fp, Lp, L, alpha, mode,
                        [o EXCEPT !.dFdL = <<>>, !.ddFdFp = <<>>, !.dFdFp = <<>>, !.dFdLp = <<>>]), o)

dropLocal_mddFdFp(r, o) == [r EXCEPT !.dF = o.dF, !.mddFdFp = o.mddFdFp]

evolveFJFullNoDF(Dt, Fp, Lp, L, alpha, mode, o) ==
    dropLocal_mddFdFp(evolveFJFull(Dt, Fp, Lp, L, alpha, mode,
                                   [o EXCEPT !.dF = <<>>, !.mddFdFp = <<>>]), o)

(***************************************************************************)
(* The callers of midpointEvolution: inputs and prior output content.      *)
(***************************************************************************)
\* time increments (2.5 is the one of testMidpointEvolution)
DtSet == {R(5, 2), R(-1, 1)}

\* integration parameters: below, at and above both ends of [0,1], and inside
AlphaSet == {R(-1, 2), Zero, R(1, 2), One, R(2, 1)}

\* Ap = {9, 10, 11, 12}, DApDt = {1, 2, 3, 4}, DADt = {5, 6, 7, 8} of the test, cut to n entries
ApOf(n) == Stored([i \in 1..n |-> R(8 + i, 1)])

DApDtOf(n) == Stored([i \in 1..n |-> R(i, 1)])

DADtOf(n) == Stored([i \in 1..n |-> R(4 + i, 1)])

RECURSIVE SeqsUpTo(_, _)
SeqsUpTo(S, n) ==
    IF n = 0 THEN {<<>>}
    ELSE LET T == SeqsUpTo(S, n - 1)
         IN  T \cup {Append(t, x) : t \in {u \in T : Len(u) = n - 1}, x \in S}

AlphaVectors == SeqsUpTo(AlphaSet, MaxLen)

\* what the caller's output variables hold before the call: freshly declared
\* (empty) vectors, or the results of an earlier call on other data
FreshMidpoint ==
    [dA |-> <<>>, A |-> <<>>, DADADt |-> <<>>, DADADtp |-> <<>>,
     mDADADt |-> <<>>, mDADADtp |-> <<>>, err |-> NULL]

StaleMidpoint ==
    [dA |-> <<R(-3, 4)>>, A |-> <<R(25, 4)>>, DADADt |-> <<R(3, 4)>>, DADADtp |-> <<R(1, 4)>>,
     mDADADt |-> <<<<R(3, 4)>>>>, mDADADtp |-> <<<<R(1, 4)>>>>, err |-> NULL]

InitMidpoint ==
    /\ pc = "start"
    /\ call = "none"
    /\ in = [Dt |-> Zero]
    /\ pre \in {FreshMidpoint, StaleMidpoint}
    /\ out = pre
    /\ err = NULL

\* one call: the overload writes the caller's outputs and returns its errorOut
Returned(name, args, r) ==
    /\ pc' = "done"
    /\ call' = name
    /\ in' = args
    /\ out' = [r EXCEPT !.err = NULL]
    /\ err' = r.err
    /\ UNCHANGED pre

VectorArgs(Dt, n, np, nc, alpha) ==
    [Dt |-> Dt, Ap |-> ApOf(n), DApDt |-> DApDtOf(np), DADt |-> DADtOf(nc), alpha |-> alpha]

Call_midpointEvolution ==
    /\ pc = "start"
    /\ \E Dt \in DtSet, n \in 0..MaxLen, np \in 0..MaxLen, nc \in 0..MaxLen, alpha \in AlphaVectors :
         Returned("midpointEvolution", VectorArgs(Dt, n, np, nc, alpha),
                  midpointEvolution(Dt, ApOf(n), DApDtOf(np), DADtOf(nc), alpha, out))

Call_midpointEvolutionFlatJ ==
    /\ pc = "start"
    /\ \E Dt \in DtSet, n \in 0..MaxLen, np \in 0..MaxLen, nc \in 0..MaxLen, alpha \in AlphaVectors :
         Returned("midpointEvolutionFlatJ", VectorArgs(Dt, n, np, nc, alpha),
                  midpointEvolutionFlatJ(Dt, ApOf(n), DApDtOf(np), DADtOf(nc), alpha, out))

Call_midpointEvolutionJ ==
    /\ pc = "start"
    /\ \E Dt \in DtSet, n \in 0..MaxLen, np \in 0..MaxLen, nc \in 0..MaxLen, alpha \in AlphaVectors :
         Returned("midpointEvolutionJ", VectorArgs(Dt, n, np, nc, alpha),
                  midpointEvolutionJ(Dt, ApOf(n), DApDtOf(np), DADtOf(nc), alpha, out))

Call_midpointEvolutionFlatJp ==
    /\ pc = "start"
    /\ \E Dt \in DtSet, n \in 0..MaxLen, np \in 0..MaxLen, nc \in 0..MaxLen, alpha \in AlphaVectors :
         Returned("midpointEvolutionFlatJp", VectorArgs(Dt, n, np, nc, alpha),
                  midpointEvolutionFlatJp(Dt, ApOf(n), DApDtOf(np), DADtOf(nc), alpha, out))

Call_midpointEvolutionJp ==
    /\ pc = "start"
    /\ \E Dt \in DtSet, n \in 0..MaxLen, np \in 0..MaxLen, nc \in 0..MaxLen, alpha \in AlphaVectors :
         Returned("midpointEvolutionJp", VectorArgs(Dt, n, np, nc, alpha),
                  midpointEvolutionJp(Dt, ApOf(n), DApDtOf(np), DADtOf(nc), alpha, out))

Call_midpointEvolutionScalar ==
    /\ pc = "start"
    /\ \E Dt \in DtSet, n \in 0..MaxLen, np \in 0..MaxLen, nc \in 0..MaxLen, alpha \in AlphaSet :
         Returned("midpointEvolutionScalar", VectorArgs(Dt, n, np, nc, alpha),
                  midpointEvolutionScalar(Dt, ApOf(n), DApDtOf(np), DADtOf(nc), alpha, out))

Call_midpointEvolutionFlatJScalar ==
    /\ pc = "start"
    /\ \E Dt \in DtSet, n \in 0..MaxLen, np \in 0..MaxLen, nc \in 0..MaxLen, alpha \in AlphaSet :
         Returned("midpointEvolutionFlatJScalar", VectorArgs(Dt, n, np, nc, alpha),
                  midpointEvolutionFlatJScalar(Dt, ApOf(n), DApDtOf(np), DADtOf(nc), alpha, out))

Call_midpointEvolutionFlatJpScalar ==
    /\ pc = "start"
    /\ \E Dt \in DtSet, n \in 0..MaxLen, np \in 0..MaxLen, nc \in 0..MaxLen, alpha \in AlphaSet :
         Returned("midpointEvolutionFlatJpScalar", VectorArgs(Dt, n, np, nc, alpha),
                  midpointEvolutionFlatJpScalar(Dt, ApOf(n), DApDtOf(np), DADtOf(nc), alpha, out))

Call_midpointEvolutionJScalar ==
    /\ pc = "start"
    /\ \E Dt \in DtSet, n \in 0..MaxLen, np \in 0..MaxLen, nc \in 0..MaxLen, alpha \in AlphaSet :
         Returned("midpointEvolutionJScalar", VectorArgs(Dt, n, np, nc, alpha),
                  midpointEvolutionJScalar(Dt, ApOf(n), DApDtOf(np), DADtOf(nc), alpha, out))

Call_midpointEvolutionJpScalar ==
    /\ pc = "start"
    /\ \E Dt \in DtSet, n \in 0..MaxLen, np \in 0..MaxLen, nc \in 0..MaxLen, alpha \in AlphaSet :
         Returned("midpointEvolutionJpScalar", VectorArgs(Dt, n, np, nc, alpha),
                  midpointEvolutionJpScalar(Dt, ApOf(n), DApDtOf(np), DADtOf(nc), alpha, out))

NextMidpoint ==
    \/ Call_midpointEvolution
    \/ Call_midpointEvolutionFlatJ
    \/ Call_midpointEvolutionJ
    \/ Call_midpointEvolutionFlatJp
    \/ Call_midpointEvolutionJp
    \/ Call_midpointEvolutionScalar
    \/ Call_midpointEvolutionFlatJScalar
    \/ Call_midpointEvolutionFlatJpScalar
    \/ Call_midpointEvolutionJScalar
    \/ Call_midpointEvolutionJpScalar

SpecMidpoint == InitMidpoint /\ [][NextMidpoint]_vars

(***************************************************************************)
(* Properties of midpointEvolution.                                        *)
(***************************************************************************)
VectorCalls ==
    {"midpointEvolution", "midpointEvolutionFlatJ", "midpointEvolutionJ",
     "midpointEvolutionFlatJp", "midpointEvolutionJp"}

ScalarCalls ==
    {"midpointEvolutionScalar", "midpointEvolutionFlatJScalar", "midpointEvolutionJScalar",
     "midpointEvolutionFlatJpScalar", "midpointEvolutionJpScalar"}

SameLengths == Len(in.Ap) = Len(in.DApDt) /\ Len(in.Ap) = Len(in.DADt)

\* the alpha vector of the call: the argument itself, or the uniform vector of a scalar call
UniformAlpha == [i \in 1..Len(in.Ap) |-> in.alpha]

AlphaOfCall == IF call \in ScalarCalls THEN UniformAlpha ELSE in.alpha

Below0(a) == a[1] < 0

Above1(a) == a[1] > a[2]

AllAlphaInUnitInterval == \A i \in 1..Len(AlphaOfCall) : ~Below0(AlphaOfCall[i]) /\ ~Above1(AlphaOfCall[i])

\* C1: for Ap, DApDt, DADt, alpha of one length n and every alpha_i in [0,1],
\* midpointEvolution succeeds with dA_i = Dt*(alpha_i*DApDt_i + (1-alpha_i)*DADt_i)
\* and A_i = Ap_i + dA_i (so alpha_i = 0, 1, 1/2 give the implicit, explicit and
\* trapezoidal updates), and the scalar-alpha overload returns what the vector
\* overload returns for the uniform vector.
C1_MidpointFormula ==
    (/\ pc = "done"
     /\ call \in {"midpointEvolution", "midpointEvolutionScalar"}
     /\ SameLengths
     /\ Len(AlphaOfCall) = Len(in.Ap)
     /\ AllAlphaInUnitInterval)
    => /\ err = NULL
       /\ Len(out.dA) = Len(in.Ap)
       /\ Len(out.A) = Len(in.Ap)
       /\ \A i \in 1..Len(in.Ap) :
            LET a == AlphaOfCall[i]
            IN  /\ out.dA[i] = fMul(in.Dt, fAdd(fMul(a, in.DApDt[i]), fMul(fSub(One, a), in.DADt[i])))
                /\ out.A[i] = fAdd(in.Ap[i], out.dA[i])
                /\ a = Zero => out.A[i] = fAdd(in.Ap[i], fMul(in.Dt, in.DADt[i]))
                /\ a = One => out.A[i] = fAdd(in.Ap[i], fMul(in.Dt, in.DApDt[i]))
                /\ a = R(1, 2) =>
                     out.A[i] = fAdd(in.Ap[i], fMul(in.Dt, fMul(R(1, 2), fAdd(in.DApDt[i], in.DADt[i]))))
       /\ call = "midpointEvolutionScalar" =>
            LET v == midpointEvolution(in.Dt, in.Ap, in.DApDt, in.DADt, UniformAlpha, pre)
            IN  out.dA = v.dA /\ out.A = v.A /\ err = v.err

C1_Witness ==
    /\ pc = "done"
    /\ call = "midpointEvolutionScalar"
    /\ err = NULL
    /\ Len(in.Ap) = 2
    /\ in.alpha = R(1, 2)
    /\ in.Dt = R(5, 2)
    /\ out.A = <<R(33, 2), R(20, 1)>>

\* C2: midpointEvolution fails if and only if the lengths of Ap, DApDt, DADt and
\* alpha are not all equal or some alpha component is < 0 or > 1; 0 and 1 are accepted.
C2_MidpointFailsIff ==
    (pc = "done" /\ call \in VectorCalls)
    => (err # NULL <=> \/ ~SameLengths
                       \/ Len(in.alpha) # Len(in.Ap)
                       \/ \E i \in 1..Len(in.alpha) : Below0(in.alpha[i]) \/ Above1(in.alpha[i]))

C2_Witness ==
    /\ pc = "done"
    /\ call = "midpointEvolution"
    /\ SameLengths
    /\ in.alpha = <<Zero, One>>
    /\ Len(in.Ap) = 2
    /\ err = NULL

\* C3 (as claimed): when midpointEvolution fails on an alpha component outside
\* [0,1], dA and A hold exactly what they held before the call.
C3_NoPartialOutput ==
    (/\ pc = "done"
     /\ call = "midpointEvolution"
     /\ err = Failure("midpointEvolution", MsgAlphaRange))
    => out.dA = pre.dA /\ out.A = pre.A

\* C4: on success the Jacobian overloads return n x n diagonal tangents,
\* dA_i/dDADt_j = Dt*(1-alpha_i) and dA_i/dDApDt_j = Dt*alpha_i for i = j, 0
\* otherwise, and the dA and A of the value-only overload.
FlatJCalls ==
    {"midpointEvolutionFlatJ", "midpointEvolutionFlatJp",
     "midpointEvolutionFlatJScalar", "midpointEvolutionFlatJpScalar"}

NestedJCalls ==
    {"midpointEvolutionJ", "midpointEvolutionJp",
     "midpointEvolutionJScalar", "midpointEvolutionJpScalar"}

WithPreviousRateJ ==
    {"midpointEvolutionFlatJp", "midpointEvolutionJp",
     "midpointEvolutionFlatJpScalar", "midpointEvolutionJpScalar"}

ExpectedDADADt(i, j) == IF i = j THEN fMul(in.Dt, fSub(One, AlphaOfCall[i])) ELSE Zero

ExpectedDADADtp(i, j) == IF i = j THEN fMul(in.Dt, AlphaOfCall[i]) ELSE Zero

C4_MidpointJacobians ==
    (pc = "done" /\ call \in FlatJCalls \cup NestedJCalls /\ err = NULL)
    => LET n == Len(in.Ap)
           v == midpointEvolution(in.Dt, in.Ap, in.DApDt, in.DADt, AlphaOfCall, pre)
       IN  /\ out.dA = v.dA /\ out.A = v.A /\ Len(out.A) = n
           /\ call \in FlatJCalls =>
                /\ Len(out.DADADt) = n * n
                /\ \A i \in 1..n, j \in 1..n : out.DADADt[n * (i - 1) + j] = ExpectedDADADt(i, j)
           /\ call \in FlatJCalls \cap WithPreviousRateJ =>
                /\ Len(out.DADADtp) = n * n
                /\ \A i \in 1..n, j \in 1..n : out.DADADtp[n * (i - 1) + j] = ExpectedDADADtp(i, j)
           /\ call \in NestedJCalls =>
                /\ Len(out.mDADADt) = n
                /\ \A i \in 1..n : Len(out.mDADADt[i]) = n
                /\ \A i \in 1..n, j \in 1..n : out.mDADADt[i][j] = ExpectedDADADt(i, j)
           /\ call \in NestedJCalls \cap WithPreviousRateJ =>
                /\ Len(out.mDADADtp) = n
                /\ \A i \in 1..n : Len(out.mDADADtp[i]) = n
                /\ \A i \in 1..n, j \in 1..n : out.mDADADtp[i][j] = ExpectedDADADtp(i, j)

C4_Witness ==
    /\ pc = "done"
    /\ call = "midpointEvolutionFlatJp"
    /\ err = NULL
    /\ in.alpha = <<Zero, R(1, 2)>>
    /\ in.Dt = R(5, 2)
    /\ out.DADADt = <<R(5, 2), Zero, Zero, R(5, 4)>>
    /\ out.DADADtp = <<Zero, Zero, Zero, R(5, 4)>>

(***************************************************************************)
(* The callers of evolveF: inputs and prior output content.                *)
(***************************************************************************)
\* one time increment: with it, alpha = 1/2 and L = identity make the left-hand side singular
DtSetF == {R(2, 1)}

\* sample 3x3 tensors with small integer components: the identity, then
\* non-symmetric tensors that do not commute with each other
SampleTensor(k) ==
    Stored([n \in 1..sot_dim |->
        IF k = 0 THEN (IF RowOf(n) = ColOf(n) THEN One ELSE Zero)
        ELSE R(((k * (2 * RowOf(n) + ColOf(n) + 1) + RowOf(n) * ColOf(n) + k * k) % 5) - 2, 1)])

\* a 2x2 tensor, too short for the 3D functions
ShortTensor == <<One, Zero, Zero, One>>

Tensors == {SampleTensor(k) : k \in 0..NumSamples} \cup {ShortTensor}

ModeSet == 0..3

FreshEvolveF ==
    [dF |-> <<>>, F |-> <<>>, dFdL |-> <<>>, ddFdFp |-> <<>>, dFdFp |-> <<>>, dFdLp |-> <<>>,
     mdFdL |-> <<>>, mddFdFp |-> <<>>, mdFdFp |-> <<>>, mdFdLp |-> <<>>, err |-> NULL]

StaleEvolveF ==
    [dF |-> floatVector(sot_dim, R(7, 1)), F |-> floatVector(sot_dim, R(8, 1)),
     dFdL |-> floatVector(sot_dim * sot_dim, R(3, 1)), ddFdFp |-> floatVector(sot_dim * sot_dim, R(4, 1)),
     dFdFp |-> floatVector(sot_dim * sot_dim, R(5, 1)), dFdLp |-> floatVector(sot_dim * sot_dim, R(6, 1)),
     mdFdL |-> floatVector(sot_dim, floatVector(sot_dim, R(3, 1))),
     mddFdFp |-> floatVector(sot_dim, floatVector(sot_dim, R(4, 1))),
     mdFdFp |-> floatVector(sot_dim, floatVector(sot_dim, R(5, 1))),
     mdFdLp |-> floatVector(sot_dim, floatVector(sot_dim, R(6, 1))), err |-> NULL]

InitEvolveF ==
    /\ pc = "start"
    /\ call = "none"
    /\ in = [Dt |-> Zero]
    /\ pre \in {FreshEvolveF, StaleEvolveF}
    /\ out = pre
    /\ err = NULL

EvolveArgs(Dt, Fp, Lp, L, alpha, mode) ==
    [Dt |-> Dt, Fp |-> Fp, Lp |-> Lp, L |-> L, alpha |-> alpha, mode |-> mode]

Call_evolveF ==
    /\ pc = "start"
    /\ \E Dt \in DtSetF, Fp \in Tensors, Lp \in Tensors, L \in Tensors, alpha \in AlphaSet, mode \in ModeSet :
         Returned("evolveF", EvolveArgs(Dt, Fp, Lp, L, alpha, mode),
                  evolveF(Dt, Fp, Lp, L, alpha, mode, out))

Call_evolveFNoDF ==
    /\ pc = "start"
    /\ \E Dt \in DtSetF, Fp \in Tensors, Lp \in Tensors, L \in Tensors, alpha \in AlphaSet, mode \in ModeSet :
         Returned("evolveFNoDF", EvolveArgs(Dt, Fp, Lp, L, alpha, mode),
                  evolveFNoDF(Dt, Fp, Lp, L, alpha, mode, out))

Call_evolveFJ ==
    /\ pc = "start"
    /\ \E Dt \in DtSetF, Fp \in Tensors, Lp \in Tensors, L \in Tensors, alpha \in AlphaSet, mode \in ModeSet :
         Returned("evolveFJ", EvolveArgs(Dt, Fp, Lp, L, alpha, mode),
                  evolveFJ(Dt, Fp, Lp, L, alpha, mode, out))

Call_evolveFFlatJ ==
    /\ pc = "start"
    /\ \E Dt \in DtSetF, Fp \in Tensors, Lp \in Tensors, L \in Tensors, alpha \in AlphaSet, mode \in ModeSet :
         Returned("evolveFFlatJ", EvolveArgs(Dt, Fp, Lp, L, alpha, mode),
                  evolveFFlatJ(Dt, Fp, Lp, L, alpha, mode, out))

Call_evolveFFlatJNoDF ==
    /\ pc = "start"
    /\ \E Dt \in DtSetF, Fp \in Tensors, Lp \in Tensors, L \in Tensors, alpha \in AlphaSet, mode \in ModeSet :
         Returned("evolveFFlatJNoDF", EvolveArgs(Dt, Fp, Lp, L, alpha, mode),
                  evolveFFlatJNoDF(Dt, Fp, Lp, L, alpha, mode, out))

Call_evolveFJNoDF ==
    /\ pc = "start"
    /\ \E Dt \in DtSetF, Fp \in Tensors, Lp \in Tensors, L \in Tensors, alpha \in AlphaSet, mode \in ModeSet :
         Returned("evolveFJNoDF", EvolveArgs(Dt, Fp, Lp, L, alpha, mode),
                  evolveFJNoDF(Dt, Fp, Lp, L, alpha, mode, out))

Call_evolveFJFull ==
    /\ pc = "start"
    /\ \E Dt \in DtSetF, Fp \in Tensors, Lp \in Tensors, L \in Tensors, alpha \in AlphaSet, mode \in ModeSet :
         Returned("evolveFJFull", EvolveArgs(Dt, Fp, Lp, L, alpha, mode),
                  evolveFJFull(Dt, Fp, Lp, L, alpha, mode, out))

Call_evolveFFlatJFull ==
    /\ pc = "start"
    /\ \E Dt \in DtSetF, Fp \in Tensors, Lp \in Tensors, L \in Tensors, alpha \in AlphaSet, mode \in ModeSet :
         Returned("evolveFFlatJFull", EvolveArgs(Dt, Fp, Lp, L, alpha, mode),
                  evolveFFlatJFull(Dt, Fp, Lp, L, alpha, mode, out))

Call_evolveFFlatJFullNoDF ==
    /\ pc = "start"
    /\ \E Dt \in DtSetF, Fp \in Tensors, Lp \in Tensors, L \in Tensors, alpha \in AlphaSet, mode \in ModeSet :
         Returned("evolveFFlatJFullNoDF", EvolveArgs(Dt, Fp, Lp, L, alpha, mode),
                  evolveFFlatJFullNoDF(Dt, Fp, Lp, L, alpha, mode, out))

Call_evolveFJFullNoDF ==
    /\ pc = "start"
    /\ \E Dt \in DtSetF, Fp \in Tensors, Lp \in Tensors, L \in Tensors, alpha \in AlphaSet, mode \in ModeSet :
         Returned("evolveFJFullNoDF", EvolveArgs(Dt, Fp, Lp, L, alpha, mode),
                  evolveFJFullNoDF(Dt, Fp, Lp, L, alpha, mode, out))

NextEvolveF ==
    \/ Call_evolveF
    \/ Call_evolveFNoDF
    \/ Call_evolveFJ
    \/ Call_evolveFFlatJ
    \/ Call_evolveFFlatJNoDF
    \/ Call_evolveFJNoDF
    \/ Call_evolveFJFull
    \/ Call_evolveFFlatJFull
    \/ Call_evolveFFlatJFullNoDF
    \/ Call_evolveFJFullNoDF

SpecEvolveF == InitEvolveF /\ [][NextEvolveF]_vars

(***************************************************************************)
(* Properties of evolveF.                                                  *)
(***************************************************************************)
EvolveCalls ==
    {"evolveF", "evolveFNoDF", "evolveFJ", "evolveFFlatJ", "evolveFFlatJNoDF", "evolveFJNoDF",
     "evolveFJFull", "evolveFFlatJFull", "evolveFFlatJFullNoDF", "evolveFJFullNoDF"}

ExposesDF == {"evolveF", "evolveFJ", "evolveFFlatJ", "evolveFJFull", "evolveFFlatJFull"}

FlatTangentCalls == {"evolveFFlatJ", "evolveFFlatJNoDF", "evolveFFlatJFull", "evolveFFlatJFullNoDF"}

NestedTangentCalls == {"evolveFJ", "evolveFJNoDF", "evolveFJFull", "evolveFJFullNoDF"}

FullTangentCalls == {"evolveFJFull", "evolveFFlatJFull", "evolveFFlatJFullNoDF", "evolveFJFullNoDF"}

Ix == 0..(dim - 1)

Delta(i, j) == IF i = j THEN One ELSE Zero

Sum3(t0, t1, t2) == fAdd(fAdd(t0, t1), t2)

\* X = I - Dt*(1-alpha)*L of the call
XOfCall ==
    Stored([n \in 1..sot_dim |->
        fSub(Delta(RowOf(n), ColOf(n)), fMul(fMul(in.Dt, fSub(One, in.alpha)), in.L[n]))])

XInvertible == Det3(XOfCall) # Zero

\* Lstar = alpha*Lp + (1-alpha)*L of the call
LstarOfCall ==
    Stored([n \in 1..sot_dim |-> fAdd(fMul(in.alpha, in.Lp[n]), fMul(fSub(One, in.alpha), in.L[n]))])

Succeeded == pc = "done" /\ call \in EvolveCalls /\ err = NULL

\* C5: for length-9 Fp, Lp, L and X = I - Dt*(1-alpha)*L invertible, the returned
\* F satisfies X*F = Fp + Dt*alpha*Lp*Fp in mode 1 and F*X = Fp + Dt*alpha*Fp*Lp
\* in mode 2.
SatisfiesMidpointEquation(X, F) ==
    /\ in.mode = 1 =>
         MatMul(X, F) = VecAdd(in.Fp, ScalarTimes(fMul(in.Dt, in.alpha), MatMul(in.Lp, in.Fp)))
    /\ in.mode = 2 =>
         MatMul(F, X) = VecAdd(in.Fp, ScalarTimes(fMul(in.Dt, in.alpha), MatMul(in.Fp, in.Lp)))

C5_ImplicitMidpointEquation ==
    (Succeeded /\ XInvertible) => SatisfiesMidpointEquation(XOfCall, out.F)

C5_Witness ==
    /\ Succeeded /\ XInvertible
    /\ call = "evolveF"
    /\ in.mode = 2
    /\ in.alpha = R(1, 2)
    /\ in.Fp = SampleTensor(1) /\ in.Lp = SampleTensor(2) /\ in.L = SampleTensor(1)
    /\ out.F # in.Fp
    /\ \A n \in 1..sot_dim : Finite(out.F[n])

\* C6: on success every overload that exposes dF returns F_i = Fp_i + dF_i for
\* all 9 components, and the overloads that do not expose dF return the same F
\* (and leave the caller's dF alone).
C6_IncrementAndGradient ==
    Succeeded
    => /\ Len(out.F) = sot_dim
       /\ call \in ExposesDF =>
            /\ Len(out.dF) = sot_dim
            /\ \A n \in 1..sot_dim : out.F[n] = fAdd(in.Fp[n], out.dF[n])
       /\ call \notin ExposesDF =>
            /\ out.F = evolveF(in.Dt, in.Fp, in.Lp, in.L, in.alpha, in.mode, pre).F
            /\ out.dF = pre.dF

C6_Witness ==
    /\ Succeeded /\ XInvertible
    /\ call = "evolveFFlatJFull"
    /\ in.mode = 1
    /\ in.alpha = Zero
    /\ in.Fp = SampleTensor(2)
    /\ \E n \in 1..sot_dim : out.dF[n] # Zero /\ Finite(out.dF[n])

BadShapeOrMode ==
    \/ Len(in.Fp) # 9
    \/ Len(in.Lp) # 9
    \/ Len(in.L) # 9
    \/ in.mode \notin {1, 2}

\* C7: evolveF fails whenever Fp, Lp or L is not of length 9 or mode is neither
\* 1 nor 2, and then dF and deformationGradient are as they were before the call.
C7_ShapeAndModeChecked ==
    (pc = "done" /\ call \in EvolveCalls /\ BadShapeOrMode)
    => err # NULL /\ out.dF = pre.dF /\ out.F = pre.F

C7_Witness ==
    /\ pc = "done"
    /\ call = "evolveF"
    /\ Len(in.Fp) = 9 /\ Len(in.Lp) = 9 /\ Len(in.L) = 9
    /\ in.mode = 3
    /\ pre = StaleEvolveF
    /\ err = Failure("evolveF", MsgMode)
    /\ out.F = StaleEvolveF.F

\* C8 (as claimed): evolveF, in every overload, fails when alpha < 0 or alpha > 1.
C8_AlphaRangeChecked ==
    (pc = "done" /\ call \in EvolveCalls /\ (Below0(in.alpha) \/ Above1(in.alpha)))
    => err # NULL

\* component ( a, b, c, d ) of a tangent, flat or nested
Component(flat, nested, a, b, c, d) ==
    IF call \in NestedTangentCalls
    THEN nested[dim * a + b + 1][dim * c + d + 1]
    ELSE flat[dim * sot_dim * a + sot_dim * b + dim * c + d + 1]

TangentL(a, b, c, d) == Component(out.dFdL, out.mdFdL, a, b, c, d)

\* C9: with X = I - Dt*(1-alpha)*L invertible and F the returned gradient,
\* dF_{jI}/dL_{kl} = Dt*(1-alpha)*Xinv_{jk}*F_{lI} in mode 1 and
\* dF_{jI}/dL_{KL} = Dt*(1-alpha)*F_{jK}*Xinv_{LI} in mode 2, at flat index
\* 27*j + 9*I + 3*k + l; the single-tangent and the full-tangent overloads
\* return the same dFdL.  Xinv is stated through X: multiplying the tangent by
\* X on the side of Xinv must leave Dt*(1-alpha)*delta*F.
TangentLSolves(X, F, c) ==
    /\ in.mode = 1 =>
         \A m \in Ix, I \in Ix, k \in Ix, l \in Ix :
            Sum3(fMul(At(X, m, 0), TangentL(0, I, k, l)),
                 fMul(At(X, m, 1), TangentL(1, I, k, l)),
                 fMul(At(X, m, 2), TangentL(2, I, k, l)))
              = fMul(fMul(c, Delta(m, k)), At(F, l, I))
    /\ in.mode = 2 =>
         \A j \in Ix, M \in Ix, K \in Ix, L \in Ix :
            Sum3(fMul(TangentL(j, 0, K, L), At(X, 0, M)),
                 fMul(TangentL(j, 1, K, L), At(X, 1, M)),
                 fMul(TangentL(j, 2, K, L), At(X, 2, M)))
              = fMul(fMul(c, At(F, j, K)), Delta(L, M))

C9_TangentWrtL ==
    (Succeeded /\ call \in FlatTangentCalls \cup NestedTangentCalls /\ XInvertible)
    => /\ call \in FlatTangentCalls => Len(out.dFdL) = sot_dim * sot_dim
       /\ call \in NestedTangentCalls =>
            Len(out.mdFdL) = sot_dim /\ \A r \in 1..sot_dim : Len(out.mdFdL[r]) = sot_dim
       /\ TangentLSolves(XOfCall, out.F, fMul(in.Dt, fSub(One, in.alpha)))
       /\ call = "evolveFFlatJFull" =>
            out.dFdL = evolveFFlatJ(in.Dt, in.Fp, in.Lp, in.L, in.alpha, in.mode, pre).dFdL

C9_Witness ==
    /\ Succeeded /\ XInvertible
    /\ call = "evolveFFlatJ"
    /\ in.mode = 2
    /\ in.alpha = Zero
    /\ in.Fp = SampleTensor(1) /\ in.L = SampleTensor(2)
    /\ \E n \in 1..(sot_dim * sot_dim) : out.dFdL[n] # Zero /\ Finite(out.dFdL[n])

\* ddFdFp where the overload exposes it, dFdFp less the identity where it does not
TangentDFp(a, b, c, d) ==
    IF call \in {"evolveFJFull", "evolveFFlatJFull"}
    THEN Component(out.ddFdFp, out.mddFdFp, a, b, c, d)
    ELSE fSub(Component(out.dFdFp, out.mdFdFp, a, b, c, d), Delta(dim * a + b, dim * c + d))

\* C10: in the full-tangent overloads dFdFp = ddFdFp + the 9x9 identity, where
\* d(dF)_{jI}/dFp_{kK} = Dt*(Xinv*Lstar)_{jk}*delta_{IK} in mode 1 and
\* Dt*delta_{jk}*(Lstar*Xinv)_{KI} in mode 2, Lstar = alpha*Lp + (1-alpha)*L.
\* Xinv is stated through X as in C9.
TangentDFpSolves(X, Lstar) ==
    /\ in.mode = 1 =>
         \A m \in Ix, I \in Ix, k \in Ix, K \in Ix :
            Sum3(fMul(At(X, m, 0), TangentDFp(0, I, k, K)),
                 fMul(At(X, m, 1), TangentDFp(1, I, k, K)),
                 fMul(At(X, m, 2), TangentDFp(2, I, k, K)))
              = fMul(fMul(in.Dt, At(Lstar, m, k)), Delta(I, K))
    /\ in.mode = 2 =>
         \A j \in Ix, M \in Ix, k \in Ix, K \in Ix :
            Sum3(fMul(TangentDFp(j, 0, k, K), At(X, 0, M)),
                 fMul(TangentDFp(j, 1, k, K), At(X, 1, M)),
                 fMul(TangentDFp(j, 2, k, K), At(X, 2, M)))
              = fMul(fMul(in.Dt, Delta(j, k)), At(Lstar, K, M))

C10_TangentWrtFp ==
    (Succeeded /\ call \in FullTangentCalls /\ XInvertible)
    => /\ call = "evolveFFlatJFull" =>
            /\ Len(out.dFdFp) = sot_dim * sot_dim /\ Len(out.ddFdFp) = sot_dim * sot_dim
            /\ \A i \in 0..(sot_dim - 1), j \in 0..(sot_dim - 1) :
                 out.dFdFp[sot_dim * i + j + 1] = fAdd(out.ddFdFp[sot_dim * i + j + 1], Delta(i, j))
       /\ call = "evolveFJFull" =>
            \A i \in 1..sot_dim, j \in 1..sot_dim :
                 out.mdFdFp[i][j] = fAdd(out.mddFdFp[i][j], Delta(i, j))
       /\ TangentDFpSolves(XOfCall, LstarOfCall)

C10_Witness ==
    /\ Succeeded /\ XInvertible
    /\ call = "evolveFFlatJFull"
    /\ in.mode = 1
    /\ in.alpha = R(1, 2)
    /\ in.Lp = SampleTensor(1) /\ in.L = SampleTensor(2)
    /\ out.dFdFp # out.ddFdFp
    /\ \E n \in 1..(sot_dim * sot_dim) : out.ddFdFp[n] # Zero /\ Finite(out.ddFdFp[n])

(***************************************************************************)
(* Tensors of any dimension d (flat, row-major, length d * d), as the      *)
(* functions that infer d from the length handle them, and the helpers of  *)
(* tardigrade_vector_tools they call.                                      *)
(***************************************************************************)
deltaDirac(i, j) == IF i = j THEN One ELSE Zero

\* the left-to-right accumulation of a loop's terms from position i on
RECURSIVE Accumulated(_, _, _)
Accumulated(terms, i, acc) ==
    IF i > Len(terms) THEN acc ELSE Accumulated(terms, i + 1, fAdd(acc, terms[i]))

\* matrixMultiply( A, B, d, d, d, d, Atranspose, Btranspose ), and the Eigen
\* product of two maps
matrixMultiply(A, B, d, tA, tB) ==
    Stored([n \in 1..(d * d) |->
        Accumulated([k \in 1..d |->
            fMul(IF tA THEN A[d * (k - 1) + ((n - 1) \div d) + 1] ELSE A[d * ((n - 1) \div d) + k],
                 IF tB THEN B[d * ((n - 1) % d) + k] ELSE B[d * (k - 1) + ((n - 1) % d) + 1])], 1, Zero)])

\* vector / scalar
Over(v, s) == Stored([i \in 1..Len(v) |-> fDiv(v[i], s)])

\* M without row i and column j (0-based)
Minor(M, d, i, j) ==
    Stored([n \in 1..((d - 1) * (d - 1)) |->
        M[d * (IF (n - 1) \div (d - 1) < i THEN (n - 1) \div (d - 1) ELSE ((n - 1) \div (d - 1)) + 1)
          + (IF (n - 1) % (d - 1) < j THEN (n - 1) % (d - 1) ELSE ((n - 1) % (d - 1)) + 1) + 1]])

\* determinant( M, d, d ): the value of the determinant (the expansion along
\* the first row; the empty matrix has determinant 1)
RECURSIVE determinant(_, _)
determinant(M, d) ==
    IF d = 0 THEN One
    ELSE IF d = 1 THEN M[1]
    ELSE Accumulated([j \in 1..d |->
             fMul(IF j % 2 = 1 THEN M[j] ELSE fNeg(M[j]), determinant(Minor(M, d, 0, j - 1), d - 1))],
             1, Zero)

\* inverse( M, d, d ): the transposed cofactors over the determinant; a singular
\* M gives non-finite components and no error
inverse(M, d) ==
    Stored([n \in 1..(d * d) |->
        fDiv(IF (((n - 1) \div d) + ((n - 1) % d)) % 2 = 0
             THEN determinant(Minor(M, d, (n - 1) % d, (n - 1) \div d), d - 1)
             ELSE fNeg(determinant(Minor(M, d, (n - 1) % d, (n - 1) \div d), d - 1)),
             determinant(M, d))])

\* a flat fourth-order tensor of dimension d whose component ( a, b, c, e ),
\* at d * d * d * a + d * d * b + d * c + e, is Component( a, b, c, e )
FourthOrder(d, Entry(_, _, _, _)) ==
    Stored([n \in 1..(d * d * d * d) |->
        Entry((n - 1) \div (d * d * d), ((n - 1) \div (d * d)) % d, ((n - 1) \div d) % d, (n - 1) % d)])

\* a floatMatrix of d * d rows filled in place: row d * a + b, column d * c + e
\* holds Entry( a, b, c, e )
FourthOrderRows(d, Entry(_, _, _, _)) ==
    Stored([r \in 1..(d * d) |-> Stored([c \in 1..(d * d) |->
        Entry((r - 1) \div d, (r - 1) % d, (c - 1) \div d, (c - 1) % d)])])

\* a Jacobian overload runs the base overload first and returns its error, wrapped
OnSuccess(r, func, Rest(_)) ==
    IF r.err # NULL THEN [r EXCEPT !.err = Catch(func, r.err)] ELSE Rest(r)

\* the caller's variables named in S are not arguments of the inner call, which
\* works on locals of the same names: they keep their content
Locals(r, o, S) == [f \in DOMAIN r |-> IF f \in S THEN o[f] ELSE r[f]]

\* a floatMatrix overload runs the flat one on local vectors, returns its error
\* wrapped, and otherwise inflates the locals into the caller's matrices
NestedOverload(r, o, func, S, Inflated(_)) ==
    IF r.err # NULL THEN Locals([r EXCEPT !.err = Catch(func, r.err)], o, S)
    ELSE Locals(Inflated(r), o, S)

(***************************************************************************)
(* computeRightCauchyGreen, computeGreenLagrangeStrain and                 *)
(* computeDGreenLagrangeStrainDF.                                          *)
(***************************************************************************)
\* a slip that forms F * F^T, the left Cauchy-Green tensor
computeRightCauchyGreen_left(F, o) ==
    IF Len(F) # sot_dim THEN [o EXCEPT !.err = Failure("computeRightCauchyGreen", "The deformation gradient must be 3D")]
    ELSE [o EXCEPT !.C = matrixMultiply(F, F, dim, FALSE, TRUE), !.err = NULL]

\* a slip that allocates dCdF before the base overload has checked F
computeRightCauchyGreenFlatJ_allocatesFirst(F, o) ==
    IF Len(F) # sot_dim
    THEN [o EXCEPT !.dCdF = floatVector(sot_dim * sot_dim, Zero),
                   !.err = Catch("computeRightCauchyGreen", Failure("computeRightCauchyGreen", "The deformation gradient must be 3D"))]
    ELSE [o EXCEPT !.C = matrixMultiply(F, F, dim, TRUE, FALSE),
                   !.dCdF = FourthOrder(dim, LAMBDA I, J, k, K :
                                fAdd(IF K = I THEN At(F, k, J) ELSE Zero,
                                     IF K = J THEN At(F, k, I) ELSE Zero)),
                   !.err = NULL]

\* C = F^T F
computeRightCauchyGreen(F, o) ==
    IF Len(F) # sot_dim THEN [o EXCEPT !.err = Failure("computeRightCauchyGreen", "The deformation gradient must be 3D")]
    ELSE [o EXCEPT !.C = matrixMultiply(F, F, dim, TRUE, FALSE), !.err = NULL]

\* the loop adds F[ dim * k + J ] at ( I, J, k, I ) and F[ dim * k + I ] at ( I, J, k, J )
computeRightCauchyGreenFlatJ(F, o) ==
    OnSuccess(computeRightCauchyGreen(F, o), "computeRightCauchyGreen",
              LAMBDA r : [r EXCEPT !.dCdF = FourthOrder(dim, LAMBDA I, J, k, K :
                              fAdd(IF K = I THEN At(F, k, J) ELSE Zero,
                                   IF K = J THEN At(F, k, I) ELSE Zero))])

computeRightCauchyGreenJ(F, o) ==
    NestedOverload(computeRightCauchyGreenFlatJ(F, o), o, "computeRightCauchyGreen", {"dCdF"},
                   LAMBDA r : [r EXCEPT !.mdCdF = inflate(r.dCdF, sot_dim, sot_dim)])

\* a slip that leaves the identity out of the strain
greenLagrangeLoop_noIdentity(F) ==
    Stored([n \in 1..sot_dim |->
        fMul(R(1, 2), Accumulated([i \in 1..dim |-> fMul(At(F, i - 1, RowOf(n)), At(F, i - 1, ColOf(n)))],
                                  1, Zero))])

\* E[ dim * I + J ] = 0.5 * ( -deltaDirac( I, J ) + sum_i F[ dim * i + I ] * F[ dim * i + J ] )
greenLagrangeLoop(F) ==
    Stored([n \in 1..sot_dim |->
        fMul(R(1, 2), Accumulated([i \in 1..dim |-> fMul(At(F, i - 1, RowOf(n)), At(F, i - 1, ColOf(n)))],
                                  1, fNeg(deltaDirac(RowOf(n), ColOf(n)))))])

computeGreenLagrangeStrain(F, o) ==
    IF Len(F) # 9 THEN [o EXCEPT !.err = Failure("computeGreenLagrangeStrain", "The deformation gradient must be 3D.")]
    ELSE [o EXCEPT !.E = greenLagrangeLoop(F), !.err = NULL]

\* a slip that takes F_{Jk} for F_{kJ} and F_{Ik} for F_{kI}
computeDGreenLagrangeStrainDF_transposed(F, o) ==
    IF Len(F) # 9
    THEN [o EXCEPT !.err = Failure("decomposeGreenLagrangeStrain", "the Green-Lagrange strain must be 3D")]
    ELSE [o EXCEPT !.dEdF = FourthOrder(dim, LAMBDA I, J, k, K :
                                fMul(R(1, 2), fAdd(fMul(deltaDirac(I, K), At(F, J, k)),
                                                   fMul(At(F, I, k), deltaDirac(J, K))))),
                   !.err = NULL]

\* dEdF[ 27 I + 9 J + 3 k + K ] = 0.5 * ( deltaDirac( I, K ) * F[ 3 k + J ] + F[ 3 k + I ] * deltaDirac( J, K ) );
\* the error node names decomposeGreenLagrangeStrain
computeDGreenLagrangeStrainDF(F, o) ==
    IF Len(F) # 9
    THEN [o EXCEPT !.err = Failure("decomposeGreenLagrangeStrain", "the Green-Lagrange strain must be 3D")]
    ELSE [o EXCEPT !.dEdF = FourthOrder(dim, LAMBDA I, J, k, K :
                                fMul(R(1, 2), fAdd(fMul(deltaDirac(I, K), At(F, k, J)),
                                                   fMul(At(F, k, I), deltaDirac(J, K))))),
                   !.err = NULL]

computeDGreenLagrangeStrainDFJ(F, o) ==
    NestedOverload(computeDGreenLagrangeStrainDF(F, o), o, "computeDGreenLagrangeStrainDF", {"dEdF"},
                   LAMBDA r : [r EXCEPT !.mdEdF = inflate(r.dEdF, Len(F), Len(F))])

computeGreenLagrangeStrainFlatJ(F, o) ==
    OnSuccess(computeGreenLagrangeStrain(F, o), "computeGreenLagrangeStrain (jacobian)",
              LAMBDA r : OnSuccess(computeDGreenLagrangeStrainDF(F, r), "computeGreenLagrangeStrain (jacobian)",
                                   LAMBDA q : q))

computeGreenLagrangeStrainJ(F, o) ==
    NestedOverload(computeGreenLagrangeStrainFlatJ(F, o), o, "computeGreenLagrangeStrain (jacobian)", {"dEdF"},
                   LAMBDA r : [r EXCEPT !.mdEdF = inflate(r.dEdF, Len(F), Len(F))])

(***************************************************************************)
(* decomposeGreenLagrangeStrain.  sqrt and pow return irrational values    *)
(* for most arguments; the model holds the rational ones: a root is exact  *)
(* when its numerator and denominator are at most MaxRoot, and callers     *)
(* draw strains whose Jacobian J is the cube of such a rational.           *)
(***************************************************************************)
\* the largest numerator and denominator of an exact root
MaxRoot == 8

\* the k-th root of a positive x
Root(x, k) ==
    IF x[1] > 0 /\ (\E p \in 1..MaxRoot : p^k = x[1]) /\ (\E q \in 1..MaxRoot : q^k = x[2])
    THEN <<CHOOSE p \in 1..MaxRoot : p^k = x[1], CHOOSE q \in 1..MaxRoot : q^k = x[2]>>
    ELSE NaN

\* pow( J, 2./3 )
pow23(J) == fMul(Root(J, 3), Root(J, 3))

\* a slip that adds 0.5 * ( 1 / pow( J, 2./3 ) + 1 ) on the diagonal
isochoricPart_plus(E, J, J23, o) ==
    [o EXCEPT !.J = J,
              !.Ebar = Stored([n \in 1..sot_dim |->
                           IF RowOf(n) = ColOf(n)
                           THEN fAdd(fDiv(E[n], J23), fMul(R(1, 2), fAdd(fDiv(One, J23), One)))
                           ELSE fDiv(E[n], J23)]),
              !.err = NULL]

\* a slip that leaves the diagonal term out
isochoricPart_noShift(E, J, J23, o) == [o EXCEPT !.J = J, !.Ebar = Over(E, J23), !.err = NULL]

\* J = sqrt( Jsq ); Ebar = E / pow( J, 2./3 ) with 0.5 * ( 1 / pow( J, 2./3 ) - 1 ) added on the diagonal
isochoricPart(E, J, J23, o) ==
    [o EXCEPT !.J = J,
              !.Ebar = Stored([n \in 1..sot_dim |->
                           IF RowOf(n) = ColOf(n)
                           THEN fAdd(fDiv(E[n], J23), fMul(R(1, 2), fSub(fDiv(One, J23), One)))
                           ELSE fDiv(E[n], J23)]),
              !.err = NULL]

\* a slip that lets the determinant 0 through
checkJsq_allowsZero(E, Jsq, o) ==
    IF Finite(Jsq) /\ Jsq[1] < 0
    THEN [o EXCEPT !.err = Failure("decomposeGreenLagrangeStrain",
                                   "the determinant of the Green-Lagrange strain is negative")]
    ELSE isochoricPart(E, Root(Jsq, 2), pow23(Root(Jsq, 2)), o)

\* the check Jsq > 0 and what follows it
checkJsq(E, Jsq, o) ==
    IF ~(Jsq[1] > 0)
    THEN [o EXCEPT !.err = Failure("decomposeGreenLagrangeStrain",
                                   "the determinant of the Green-Lagrange strain is negative")]
    ELSE isochoricPart(E, Root(Jsq, 2), pow23(Root(Jsq, 2)), o)

decomposeGreenLagrangeStrain(E, o) ==
    IF Len(E) # sot_dim
    THEN [o EXCEPT !.err = Failure("decomposeGreenLagrangeStrain", "the Green-Lagrange strain must be 3D")]
    ELSE checkJsq(E, Det3(AddEye(ScalarTimes(R(2, 1), E))), o)

\* dJdE = J * ( 2 E + I )^{-1}; dEbardE = invJ23 on the diagonal of the 9 x 9 map, less
\* (1./3) * invJ53 * dJdE[ j, k ] at ( i, i, j, k ) and (2./3) * invJ53 * E[ i, j ] * dJdE[ k, l ]
decomposeTangents(r, E, dJdE, invJ23, invJ53) ==
    [r EXCEPT !.dJdE = dJdE,
              !.dEbardE = FourthOrder(dim, LAMBDA i, j, k, l :
                  fSub(fSub(IF i = k /\ j = l THEN invJ23 ELSE Zero,
                            IF i = j THEN fMul(fMul(R(1, 3), invJ53), At(dJdE, k, l)) ELSE Zero),
                       fMul(fMul(fMul(R(2, 3), invJ53), At(E, i, j)), At(dJdE, k, l))))]

decomposeGreenLagrangeStrainFlatJ(E, o) ==
    OnSuccess(decomposeGreenLagrangeStrain(E, o), "decomposeGreenLagrangeStrain",
              LAMBDA r : decomposeTangents(r, E, ScalarTimes(r.J, Inverse3(AddEye(ScalarTimes(R(2, 1), E)))),
                                           fDiv(One, pow23(r.J)), fDiv(One, fMul(pow23(r.J), r.J))))

decomposeGreenLagrangeStrainJ(E, o) ==
    NestedOverload(decomposeGreenLagrangeStrainFlatJ(E, o), o, "decomposeGreenLagrangeStrain", {"dEbardE"},
                   LAMBDA r : [r EXCEPT !.mdEbardE = inflate(r.dEbardE, sot_dim, sot_dim)])

(***************************************************************************)
(* mapPK2toCauchy and computeDFDt.                                         *)
(***************************************************************************)
\* temp_sot = F * PK2 / detF, then cauchyStress = temp_sot * F^T
mapPK2toCauchy(PK2, F, o) ==
    IF Len(PK2) # sot_dim
    THEN [o EXCEPT !.err = Failure("mapPK2toCauchy", "The cauchy stress must have nine components (3D)")]
    ELSE IF Len(F) # Len(PK2)
    THEN [o EXCEPT !.err = Failure("mapPK2toCauchy",
                                   "The deformation gradient and the PK2 stress don't have the same size")]
    ELSE [o EXCEPT !.cauchyStress = matrixMultiply(Over(matrixMultiply(F, PK2, dim, FALSE, FALSE), Det3(F)),
                                                   F, dim, FALSE, TRUE),
                   !.err = NULL]

\* DFDt = L * F
computeDFDt(L, F, o) ==
    IF Len(L) # Len(F)
    THEN [o EXCEPT !.err = Failure("computeDFDt",
                                   "The velocity gradient and deformation gradient must have the same size")]
    ELSE IF Len(L) # sot_dim
    THEN [o EXCEPT !.err = Failure("computeDFDt", "The velocity gradient doesn't have enough entries")]
    ELSE [o EXCEPT !.DFDt = matrixMultiply(L, F, dim, FALSE, FALSE), !.err = NULL]

\* a slip that allocates the two Jacobians before the base overload has run
computeDFDtFlatJ_allocatesFirst(L, F, o) ==
    OnSuccess(computeDFDt(L, F, [o EXCEPT !.dDFDtdL = floatVector(sot_dim * sot_dim, Zero),
                                          !.dDFDtdF = floatVector(sot_dim * sot_dim, Zero)]),
              "computeDFDt",
              LAMBDA r : [r EXCEPT !.dDFDtdL = FourthOrder(dim, LAMBDA i, I, a, k :
                                                 IF a = i THEN At(F, k, I) ELSE Zero),
                                   !.dDFDtdF = FourthOrder(dim, LAMBDA i, I, k, b :
                                                 IF b = I THEN At(L, i, k) ELSE Zero)])

\* the loop stores F[ dim * k + I ] at ( i, I, i, k ) and L[ dim * i + k ] at ( i, I, k, I )
computeDFDtFlatJ(L, F, o) ==
    OnSuccess(computeDFDt(L, F, o), "computeDFDt",
              LAMBDA r : [r EXCEPT !.dDFDtdL = FourthOrder(dim, LAMBDA i, I, a, k :
                                                 IF a = i THEN At(F, k, I) ELSE Zero),
                                   !.dDFDtdF = FourthOrder(dim, LAMBDA i, I, k, b :
                                                 IF b = I THEN At(L, i, k) ELSE Zero)])

computeDFDtJ(L, F, o) ==
    NestedOverload(computeDFDtFlatJ(L, F, o), o, "computeDFDt", {"dDFDtdL", "dDFDtdF"},
                   LAMBDA r : [r EXCEPT !.mdDFDtdL = inflate(r.dDFDtdL, sot_dim, sot_dim),
                                        !.mdDFDtdF = inflate(r.dDFDtdF, sot_dim, sot_dim)])

(***************************************************************************)
(* computeSymmetricPart, pushForwardPK2Stress and pullBackCauchyStress:    *)
(* the dimension is inferred from the length of the first argument.        *)
(***************************************************************************)
\* ( unsigned int )( std::sqrt( ( double )n ) + 0.5 ): the integer nearest to the root
roundedRoot(n) == IF n = 0 THEN 0 ELSE CHOOSE d \in 1..n : d * d - d < n /\ n <= d * d + d

\* a slip that adds A[ d * i + j ] to itself
computeSymmetricPartDim_unsymmetric(A, o) ==
    IF roundedRoot(Len(A)) * roundedRoot(Len(A)) # Len(A)
    THEN [o EXCEPT !.dim = roundedRoot(Len(A)),
                   !.err = Failure("computeSymmetricPart", "A is not a square matrix")]
    ELSE [o EXCEPT !.dim = roundedRoot(Len(A)),
                   !.symmA = Stored([n \in 1..Len(A) |-> fMul(R(1, 2), fAdd(A[n], A[n]))]),
                   !.err = NULL]

\* symmA[ d * i + j ] = 0.5 * ( A[ d * i + j ] + A[ d * j + i ] ); dim is written before the check
computeSymmetricPartDim(A, o) ==
    IF roundedRoot(Len(A)) * roundedRoot(Len(A)) # Len(A)
    THEN [o EXCEPT !.dim = roundedRoot(Len(A)),
                   !.err = Failure("computeSymmetricPart", "A is not a square matrix")]
    ELSE [o EXCEPT !.dim = roundedRoot(Len(A)),
                   !.symmA = Stored([n \in 1..Len(A) |->
                                 fMul(R(1, 2), fAdd(A[n], A[roundedRoot(Len(A)) * ((n - 1) % roundedRoot(Len(A)))
                                                          + ((n - 1) \div roundedRoot(Len(A))) + 1]))]),
                   !.err = NULL]

\* the overload without dim passes a local
computeSymmetricPart(A, o) == Locals(computeSymmetricPartDim(A, o), o, {"dim"})

\* 0.5 * ( eye[ d i + k ] * eye[ d j + l ] + eye[ d j + k ] * eye[ d i + l ] ) at ( i, j, k, l )
symmetricProjector(d) ==
    FourthOrder(d, LAMBDA i, j, k, l :
        fMul(R(1, 2), fAdd(fMul(deltaDirac(i, k), deltaDirac(j, l)), fMul(deltaDirac(j, k), deltaDirac(i, l)))))

computeSymmetricPartFlatJ(A, o) ==
    Locals(OnSuccess(computeSymmetricPartDim(A, o), "computeSymmetricPart (jacobian)",
                     LAMBDA r : [r EXCEPT !.dSymmAdA = symmetricProjector(r.dim)]),
           o, {"dim"})

\* the floatMatrix overload fills its rows directly
computeSymmetricPartJ(A, o) ==
    Locals(OnSuccess(computeSymmetricPartDim(A, o), "computeSymmetricPart (jacobian)",
                     LAMBDA r : [r EXCEPT !.mdSymmAdA = FourthOrderRows(r.dim, LAMBDA i, j, k, l :
                         fMul(R(1, 2), fAdd(fMul(deltaDirac(i, k), deltaDirac(j, l)),
                                            fMul(deltaDirac(j, k), deltaDirac(i, l)))))]),
           o, {"dim"})

\* the two checks that open every overload of a stress mapper
stressShapeError(func, stress, F, d) ==
    IF d * d # Len(stress) THEN Failure(func, "stress size")
    ELSE IF Len(stress) # Len(F) THEN Failure(func, "deformation gradient size")
    ELSE NULL

\* a slip that leaves the second factor untransposed
pushForward_untransposed(PK2, F, d, J) ==
    Over(matrixMultiply(matrixMultiply(F, PK2, d, FALSE, FALSE), F, d, FALSE, FALSE), J)

\* cauchyStress = F * PK2 * F^T / J
pushForward(PK2, F, d, J) ==
    Over(matrixMultiply(matrixMultiply(F, PK2, d, FALSE, FALSE), F, d, FALSE, TRUE), J)

pushForwardPK2Stress(PK2, F, o) ==
    IF stressShapeError("", PK2, F, roundedRoot(Len(PK2))) # NULL
    THEN [o EXCEPT !.err = stressShapeError("", PK2, F, roundedRoot(Len(PK2)))]
    ELSE [o EXCEPT !.cauchyStress = pushForward(PK2, F, roundedRoot(Len(PK2)),
                                                determinant(F, roundedRoot(Len(PK2)))),
                   !.err = NULL]

\* dCauchyStressdPK2 = F[ i, A ] * F[ j, B ] / J at ( i, j, A, B ); dCauchyStressdF = the
\* product -( F * PK2 * F^T ) / ( J * J ) with dJdF = J * F^{-T} (computeDDetADA), plus the sum over I of
\* eye[ i, A ] * PK2[ B, I ] * F[ j, I ] / J + F[ i, I ] * PK2[ I, B ] * eye[ j, A ] / J
pushForwardTangents(PK2, F, d, J, Finv, sigma, o) ==
    [o EXCEPT !.cauchyStress = sigma,
              !.dCauchyStressdPK2 = FourthOrder(d, LAMBDA i, j, A, B :
                  fDiv(fMul(F[d * i + A + 1], F[d * j + B + 1]), J)),
              !.dCauchyStressdF = FourthOrder(d, LAMBDA i, j, A, B :
                  Accumulated([I \in 1..d |->
                      fAdd(fDiv(fMul(fMul(deltaDirac(i, A), PK2[d * B + I]), F[d * j + I]), J),
                           fDiv(fMul(fMul(F[d * i + I], PK2[d * (I - 1) + B + 1]), deltaDirac(j, A)), J))],
                      1, fMul(fDiv(fNeg(fMul(sigma[d * i + j + 1], J)), fMul(J, J)),
                              fMul(J, Finv[d * B + A + 1])))),
              !.err = NULL]

pushForwardPK2StressFlatJ(PK2, F, o) ==
    IF stressShapeError("", PK2, F, roundedRoot(Len(PK2))) # NULL
    THEN [o EXCEPT !.err = stressShapeError("", PK2, F, roundedRoot(Len(PK2)))]
    ELSE pushForwardTangents(PK2, F, roundedRoot(Len(PK2)), determinant(F, roundedRoot(Len(PK2))),
                             inverse(F, roundedRoot(Len(PK2))),
                             pushForward(PK2, F, roundedRoot(Len(PK2)), determinant(F, roundedRoot(Len(PK2)))), o)

pushForwardPK2StressJ(PK2, F, o) ==
    NestedOverload(pushForwardPK2StressFlatJ(PK2, F, o), o, "pushForwardPK2Stress",
                   {"dCauchyStressdPK2", "dCauchyStressdF"},
                   LAMBDA r : [r EXCEPT
                       !.mdCauchyStressdPK2 = inflate(r.dCauchyStressdPK2, Len(r.cauchyStress), Len(PK2)),
                       !.mdCauchyStressdF = inflate(r.dCauchyStressdF, Len(r.cauchyStress), Len(F))])

\* a slip that leaves out the volume ratio
pullBack_unscaled(cauchyStress, d, J, Finv) ==
    matrixMultiply(matrixMultiply(Finv, cauchyStress, d, FALSE, FALSE), Finv, d, FALSE, TRUE)

\* PK2 = J * Finv * cauchyStress * Finv^T
pullBack(cauchyStress, d, J, Finv) ==
    ScalarTimes(J, matrixMultiply(matrixMultiply(Finv, cauchyStress, d, FALSE, FALSE), Finv, d, FALSE, TRUE))

pullBackCauchyStress(cauchyStress, F, o) ==
    IF stressShapeError("pullBackCauchyStress", cauchyStress, F, roundedRoot(Len(cauchyStress))) # NULL
    THEN [o EXCEPT !.err = stressShapeError("pullBackCauchyStress", cauchyStress, F,
                                            roundedRoot(Len(cauchyStress)))]
    ELSE [o EXCEPT !.PK2 = pullBack(cauchyStress, roundedRoot(Len(cauchyStress)),
                                    determinant(F, roundedRoot(Len(cauchyStress))),
                                    inverse(F, roundedRoot(Len(cauchyStress)))),
                   !.err = NULL]

\* dPK2dCauchyStress = J * Finv[ A, k ] * Finv[ B, l ] and dPK2dF = Finv[ l, k ] * PK2[ A, B ]
\* - Finv[ A, k ] * PK2[ l, B ] - Finv[ B, k ] * PK2[ A, l ] at ( A, B, k, l )
pullBackTangents(d, J, Finv, PK2, o) ==
    [o EXCEPT !.PK2 = PK2,
              !.dPK2dCauchyStress = FourthOrder(d, LAMBDA A, B, k, l :
                  fMul(fMul(J, Finv[d * A + k + 1]), Finv[d * B + l + 1])),
              !.dPK2dF = FourthOrder(d, LAMBDA A, B, k, l :
                  fSub(fSub(fMul(Finv[d * l + k + 1], PK2[d * A + B + 1]),
                            fMul(Finv[d * A + k + 1], PK2[d * l + B + 1])),
                       fMul(Finv[d * B + k + 1], PK2[d * A + l + 1]))),
              !.err = NULL]

pullBackCauchyStressFlatJ(cauchyStress, F, o) ==
    IF stressShapeError("pullBackCauchyStress", cauchyStress, F, roundedRoot(Len(cauchyStress))) # NULL
    THEN [o EXCEPT !.err = stressShapeError("pullBackCauchyStress", cauchyStress, F,
                                            roundedRoot(Len(cauchyStress)))]
    ELSE pullBackTangents(roundedRoot(Len(cauchyStress)), determinant(F, roundedRoot(Len(cauchyStress))),
                          inverse(F, roundedRoot(Len(cauchyStress))),
                          pullBack(cauchyStress, roundedRoot(Len(cauchyStress)),
                                   determinant(F, roundedRoot(Len(cauchyStress))),
                                   inverse(F, roundedRoot(Len(cauchyStress)))), o)

pullBackCauchyStressJ(cauchyStress, F, o) ==
    NestedOverload(pullBackCauchyStressFlatJ(cauchyStress, F, o), o, "pullBackCauchyStress",
                   {"dPK2dCauchyStress", "dPK2dF"},
                   LAMBDA r : [r EXCEPT
                       !.mdPK2dCauchyStress = inflate(r.dPK2dCauchyStress, Len(r.PK2), Len(cauchyStress)),
                       !.mdPK2dF = inflate(r.dPK2dF, Len(r.PK2), Len(F))])

(***************************************************************************)
(* The callers of the strain and stress functions: inputs and prior        *)
(* output content.                                                         *)
(***************************************************************************)
\* the tensors handed to evolveF and tensors of other shapes: one component,
\* three (not a square), 2 x 2 and 4 x 4
TensorInputs ==
    Tensors \cup {<<R(2, 1)>>, <<One, R(2, 1), R(3, 1)>>, <<R(2, 1), One, Zero, One>>,
                  Stored([n \in 1..16 |-> IF (n - 1) \div 4 = (n - 1) % 4 THEN R(2, 1) ELSE Zero])}

\* deformation gradients whose determinant is the cube of a rational: the identity,
\* a dilation, a contraction, a simple shear, a sheared stretch, and a reflection
VolumeSamples ==
    {SampleTensor(0),
     floatVector(1, R(2, 1)) \o floatVector(3, Zero) \o floatVector(1, R(2, 1)) \o floatVector(3, Zero)
         \o floatVector(1, R(2, 1)),
     floatVector(1, R(1, 2)) \o floatVector(3, Zero) \o floatVector(1, R(1, 2)) \o floatVector(3, Zero)
         \o floatVector(1, R(1, 2)),
     <<One, One, Zero, Zero, One, Zero, Zero, Zero, One>>,
     <<One, One, Zero, Zero, R(2, 1), Zero, Zero, Zero, R(4, 1)>>,
     <<R(-1, 1), Zero, Zero, Zero, One, Zero, Zero, Zero, One>>}

\* strains of no deformation: det( 2 E + I ) is -9 for the first (the one of
\* testDecomposeGreenLagrangeStrain) and 0 for the second
NonPhysicalStrains ==
    {<<R(-1, 1), Zero, Zero, Zero, One, Zero, Zero, Zero, One>>,
     <<R(-1, 2), Zero, Zero, Zero, Zero, Zero, Zero, Zero, Zero>>}

FreshTensor ==
    [C |-> <<>>, dCdF |-> <<>>, mdCdF |-> <<>>, E |-> <<>>, dEdF |-> <<>>, mdEdF |-> <<>>,
     Ebar |-> <<>>, J |-> Zero, dEbardE |-> <<>>, mdEbardE |-> <<>>, dJdE |-> <<>>,
     cauchyStress |-> <<>>, dCauchyStressdPK2 |-> <<>>, dCauchyStressdF |-> <<>>,
     mdCauchyStressdPK2 |-> <<>>, mdCauchyStressdF |-> <<>>,
     DFDt |-> <<>>, dDFDtdL |-> <<>>, dDFDtdF |-> <<>>, mdDFDtdL |-> <<>>, mdDFDtdF |-> <<>>,
     dim |-> 0, symmA |-> <<>>, dSymmAdA |-> <<>>, mdSymmAdA |-> <<>>,
     PK2 |-> <<>>, dPK2dCauchyStress |-> <<>>, dPK2dF |-> <<>>,
     mdPK2dCauchyStress |-> <<>>, mdPK2dF |-> <<>>, err |-> NULL]

StaleTensor ==
    [C |-> <<R(3, 1)>>, dCdF |-> <<R(4, 1)>>, mdCdF |-> <<<<R(4, 1)>>>>,
     E |-> <<R(5, 1), R(5, 1), R(5, 1), R(5, 1), R(5, 1), R(5, 1), R(5, 1), R(5, 1), R(5, 1)>>,
     dEdF |-> <<R(6, 1)>>, mdEdF |-> <<<<R(6, 1)>>>>,
     Ebar |-> <<R(7, 1)>>, J |-> R(7, 2), dEbardE |-> <<R(8, 1)>>, mdEbardE |-> <<<<R(8, 1)>>>>,
     dJdE |-> <<R(9, 1)>>,
     cauchyStress |-> <<R(3, 2)>>, dCauchyStressdPK2 |-> <<R(5, 2)>>, dCauchyStressdF |-> <<R(7, 2)>>,
     mdCauchyStressdPK2 |-> <<<<R(5, 2)>>>>, mdCauchyStressdF |-> <<<<R(7, 2)>>>>,
     DFDt |-> <<R(1, 3)>>, dDFDtdL |-> <<R(2, 3)>>, dDFDtdF |-> <<R(4, 3)>>,
     mdDFDtdL |-> <<<<R(2, 3)>>>>, mdDFDtdF |-> <<<<R(4, 3)>>>>,
     dim |-> 7, symmA |-> <<R(1, 5)>>, dSymmAdA |-> <<R(2, 5)>>, mdSymmAdA |-> <<<<R(2, 5)>>>>,
     PK2 |-> <<R(1, 7)>>, dPK2dCauchyStress |-> <<R(2, 7)>>, dPK2dF |-> <<R(3, 7)>>,
     mdPK2dCauchyStress |-> <<<<R(2, 7)>>>>, mdPK2dF |-> <<<<R(3, 7)>>>>, err |-> NULL]

InitTensor ==
    /\ pc = "start"
    /\ call = "none"
    /\ in = [F |-> <<>>]
    /\ pre \in {FreshTensor, StaleTensor}
    /\ out = pre
    /\ err = NULL

Call_computeRightCauchyGreen ==
    /\ pc = "start"
    /\ \E F \in TensorInputs :
         \/ Returned("computeRightCauchyGreen", [F |-> F], computeRightCauchyGreen(F, out))
         \/ Returned("computeRightCauchyGreenFlatJ", [F |-> F], computeRightCauchyGreenFlatJ(F, out))
         \/ Returned("computeRightCauchyGreenJ", [F |-> F], computeRightCauchyGreenJ(F, out))

Call_computeGreenLagrangeStrain ==
    /\ pc = "start"
    /\ \E F \in TensorInputs :
         \/ Returned("computeGreenLagrangeStrain", [F |-> F], computeGreenLagrangeStrain(F, out))
         \/ Returned("computeGreenLagrangeStrainFlatJ", [F |-> F], computeGreenLagrangeStrainFlatJ(F, out))
         \/ Returned("computeGreenLagrangeStrainJ", [F |-> F], computeGreenLagrangeStrainJ(F, out))

Call_computeDGreenLagrangeStrainDF ==
    /\ pc = "start"
    /\ \E F \in TensorInputs :
         \/ Returned("computeDGreenLagrangeStrainDF", [F |-> F], computeDGreenLagrangeStrainDF(F, out))
         \/ Returned("computeDGreenLagrangeStrainDFJ", [F |-> F], computeDGreenLagrangeStrainDFJ(F, out))

\* the strain handed over is the Green-Lagrange strain of a deformation gradient
\* F, or one that no deformation produces (F is then empty)
Call_decomposeGreenLagrangeStrain ==
    /\ pc = "start"
    /\ \E a \in {[F |-> F, E |-> greenLagrangeLoop(F)] : F \in VolumeSamples}
               \cup {[F |-> <<>>, E |-> E] : E \in NonPhysicalStrains \cup (TensorInputs \ Tensors)} :
         \/ Returned("decomposeGreenLagrangeStrain", a, decomposeGreenLagrangeStrain(a.E, out))
         \/ Returned("decomposeGreenLagrangeStrainFlatJ", a, decomposeGreenLagrangeStrainFlatJ(a.E, out))
         \/ Returned("decomposeGreenLagrangeStrainJ", a, decomposeGreenLagrangeStrainJ(a.E, out))

Call_mapPK2toCauchy ==
    /\ pc = "start"
    /\ \E PK2 \in TensorInputs, F \in TensorInputs :
         Returned("mapPK2toCauchy", [PK2 |-> PK2, F |-> F], mapPK2toCauchy(PK2, F, out))

Call_computeDFDt ==
    /\ pc = "start"
    /\ \E L \in TensorInputs, F \in TensorInputs :
         \/ Returned("computeDFDt", [L |-> L, F |-> F], computeDFDt(L, F, out))
         \/ Returned("computeDFDtFlatJ", [L |-> L, F |-> F], computeDFDtFlatJ(L, F, out))
         \/ Returned("computeDFDtJ", [L |-> L, F |-> F], computeDFDtJ(L, F, out))

Call_computeSymmetricPart ==
    /\ pc = "start"
    /\ \E A \in TensorInputs :
         \/ Returned("computeSymmetricPartDim", [A |-> A], computeSymmetricPartDim(A, out))
         \/ Returned("computeSymmetricPart", [A |-> A], computeSymmetricPart(A, out))
         \/ Returned("computeSymmetricPartFlatJ", [A |-> A], computeSymmetricPartFlatJ(A, out))
         \/ Returned("computeSymmetricPartJ", [A |-> A], computeSymmetricPartJ(A, out))

Call_pushForwardPK2Stress ==
    /\ pc = "start"
    /\ \E PK2 \in TensorInputs, F \in TensorInputs :
         \/ Returned("pushForwardPK2Stress", [PK2 |-> PK2, F |-> F], pushForwardPK2Stress(PK2, F, out))
         \/ Returned("pushForwardPK2StressFlatJ", [PK2 |-> PK2, F |-> F],
                     pushForwardPK2StressFlatJ(PK2, F, out))
         \/ Returned("pushForwardPK2StressJ", [PK2 |-> PK2, F |-> F], pushForwardPK2StressJ(PK2, F, out))

Call_pullBackCauchyStress ==
    /\ pc = "start"
    /\ \E cauchyStress \in TensorInputs, F \in TensorInputs :
         \/ Returned("pullBackCauchyStress", [cauchyStress |-> cauchyStress, F |-> F],
                     pullBackCauchyStress(cauchyStress, F, out))
         \/ Returned("pullBackCauchyStressFlatJ", [cauchyStress |-> cauchyStress, F |-> F],
                     pullBackCauchyStressFlatJ(cauchyStress, F, out))
         \/ Returned("pullBackCauchyStressJ", [cauchyStress |-> cauchyStress, F |-> F],
                     pullBackCauchyStressJ(cauchyStress, F, out))

NextTensor ==
    \/ Call_computeRightCauchyGreen
    \/ Call_computeGreenLagrangeStrain
    \/ Call_computeDGreenLagrangeStrainDF
    \/ Call_decomposeGreenLagrangeStrain
    \/ Call_mapPK2toCauchy
    \/ Call_computeDFDt
    \/ Call_computeSymmetricPart
    \/ Call_pushForwardPK2Stress
    \/ Call_pullBackCauchyStress

SpecTensor == InitTensor /\ [][NextTensor]_vars

(***************************************************************************)
(* Properties of the strain measures.                                      *)
(***************************************************************************)
RightCauchyGreenCalls ==
    {"computeRightCauchyGreen", "computeRightCauchyGreenFlatJ", "computeRightCauchyGreenJ"}

GreenLagrangeCalls ==
    {"computeGreenLagrangeStrain", "computeGreenLagrangeStrainFlatJ", "computeGreenLagrangeStrainJ"}

DGreenLagrangeCalls == {"computeDGreenLagrangeStrainDF", "computeDGreenLagrangeStrainDFJ"}

Returns(calls) == pc = "done" /\ call \in calls

\* sum_i F_{iI} * F_{iJ}
FtF(F, I, J) == Sum3(fMul(At(F, 0, I), At(F, 0, J)), fMul(At(F, 1, I), At(F, 1, J)),
                     fMul(At(F, 2, I), At(F, 2, J)))

\* component ( a, b, c, d ) of a tangent returned flat, or nested as 9 rows of 9
TangentAt(flat, nested, isNested, a, b, c, d) ==
    IF isNested THEN nested[dim * a + b + 1][dim * c + d + 1]
    ELSE flat[dim * sot_dim * a + sot_dim * b + dim * c + d + 1]

\* the innermost node of an error chain
Cause(e) == e[Len(e)]

\* C12: for every length-9 F, computeGreenLagrangeStrain returns
\* E_{IJ} = 0.5*(sum_i F_{iI}*F_{iJ} - delta_{IJ}) at 3*I + J; the identity gives the
\* all-zero strain, and E is symmetric.
C12_GreenLagrangeStrain ==
    (Returns(GreenLagrangeCalls) /\ Len(in.F) = 9)
    => /\ err = NULL
       /\ Len(out.E) = 9
       /\ \A I \in 0..2, J \in 0..2 :
            /\ out.E[3 * I + J + 1] = fMul(R(1, 2), fSub(FtF(in.F, I, J), Delta(I, J)))
            /\ out.E[3 * I + J + 1] = out.E[3 * J + I + 1]
       /\ in.F = SampleTensor(0) => out.E = floatVector(9, Zero)

C12_Witness ==
    /\ Returns({"computeGreenLagrangeStrain"})
    /\ in.F = SampleTensor(1)
    /\ pre = StaleTensor
    /\ err = NULL
    /\ \E n \in 1..9 : out.E[n] # Zero /\ out.E[n] # pre.E[n]

\* C13: for every length-9 F, computeDGreenLagrangeStrainDF and the Jacobian
\* overloads of computeGreenLagrangeStrain return
\* dE_{IJ}/dF_{kK} = 0.5*(delta_{IK}*F_{kJ} + F_{kI}*delta_{JK}) at 27*I + 9*J + 3*k + K,
\* and the two functions return the same tangent for the same F.
C13_GreenLagrangeTangent ==
    (/\ Returns(DGreenLagrangeCalls \cup {"computeGreenLagrangeStrainFlatJ", "computeGreenLagrangeStrainJ"})
     /\ Len(in.F) = 9)
    => /\ err = NULL
       /\ \A I \in 0..2, J \in 0..2, k \in 0..2, K \in 0..2 :
            TangentAt(out.dEdF, out.mdEdF,
                      call \in {"computeDGreenLagrangeStrainDFJ", "computeGreenLagrangeStrainJ"}, I, J, k, K)
            = fMul(R(1, 2), fAdd(fMul(Delta(I, K), At(in.F, k, J)), fMul(At(in.F, k, I), Delta(J, K))))
       /\ call = "computeGreenLagrangeStrainFlatJ" =>
            out.dEdF = computeDGreenLagrangeStrainDF(in.F, pre).dEdF
       /\ call = "computeDGreenLagrangeStrainDF" =>
            out.dEdF = computeGreenLagrangeStrainFlatJ(in.F, pre).dEdF
       /\ call = "computeGreenLagrangeStrainJ" =>
            out.mdEdF = computeDGreenLagrangeStrainDFJ(in.F, pre).mdEdF
       /\ call = "computeDGreenLagrangeStrainDFJ" =>
            out.mdEdF = computeGreenLagrangeStrainJ(in.F, pre).mdEdF

C13_Witness ==
    /\ Returns({"computeGreenLagrangeStrainJ"})
    /\ in.F = SampleTensor(1)
    /\ err = NULL
    /\ Len(out.mdEdF) = 9
    /\ out.mdEdF[1][1] = At(in.F, 0, 0)
    /\ out.mdEdF[2][1] # out.mdEdF[2][2]

\* C14: for every length-9 F, computeRightCauchyGreen returns C_{IJ} = sum_i F_{iI}*F_{iJ}
\* and the tangent dC_{IJ}/dF_{kK} = delta_{IK}*F_{kJ} + delta_{JK}*F_{kI} at
\* 27*I + 9*J + 3*k + K, so that the case I = J = K receives 2*F_{kI}.
C14_RightCauchyGreen ==
    (Returns(RightCauchyGreenCalls) /\ Len(in.F) = 9)
    => /\ err = NULL
       /\ Len(out.C) = 9
       /\ \A I \in 0..2, J \in 0..2 : out.C[3 * I + J + 1] = FtF(in.F, I, J)
       /\ call # "computeRightCauchyGreen" =>
            \A I \in 0..2, J \in 0..2, k \in 0..2, K \in 0..2 :
               /\ TangentAt(out.dCdF, out.mdCdF, call = "computeRightCauchyGreenJ", I, J, k, K)
                  = fAdd(fMul(Delta(I, K), At(in.F, k, J)), fMul(Delta(J, K), At(in.F, k, I)))
               /\ (I = J /\ J = K) =>
                    TangentAt(out.dCdF, out.mdCdF, call = "computeRightCauchyGreenJ", I, J, k, K)
                    = fMul(R(2, 1), At(in.F, k, I))

C14_Witness ==
    /\ Returns({"computeRightCauchyGreenFlatJ"})
    /\ in.F = SampleTensor(2)
    /\ err = NULL
    /\ Len(out.dCdF) = 81
    /\ out.dCdF[1] = fMul(R(2, 1), in.F[1])
    /\ out.C # matrixMultiply(in.F, in.F, dim, FALSE, TRUE)

\* C15: computeGreenLagrangeStrain, computeDGreenLagrangeStrainDF and
\* computeRightCauchyGreen fail with a shape error if and only if the deformation
\* gradient's length is not 9, and on that failure none of their outputs is written.
C15_StrainShapeChecked ==
    Returns(RightCauchyGreenCalls \cup GreenLagrangeCalls \cup DGreenLagrangeCalls)
    => /\ err # NULL <=> Len(in.F) # 9
       /\ err # NULL =>
            /\ Cause(err).msg \in {"The deformation gradient must be 3D", "The deformation gradient must be 3D.",
                                   "the Green-Lagrange strain must be 3D"}
            /\ out = pre

C15_Witness ==
    /\ Returns({"computeGreenLagrangeStrainJ"})
    /\ Len(in.F) = 16
    /\ err # NULL
    /\ Len(err) = 3
    /\ pre = StaleTensor
    /\ out = StaleTensor

DecomposeCalls ==
    {"decomposeGreenLagrangeStrain", "decomposeGreenLagrangeStrainFlatJ", "decomposeGreenLagrangeStrainJ"}

\* E / s with t added on the diagonal
ScaledAndShifted(E, s, t) ==
    [n \in 1..9 |-> IF RowOf(n) = ColOf(n) THEN fAdd(fDiv(E[n], s), t) ELSE fDiv(E[n], s)]

\* Ebar and J are those of the strain E, for the cube root c of J
IsIsochoricSplit(E, Ebar, J, c) ==
    /\ fMul(J, J) = Det3(AddEye(ScalarTimes(R(2, 1), E)))
    /\ J[1] > 0
    /\ fMul(fMul(c, c), c) = J
    /\ \A n \in 1..9 :
         Ebar[n] = ScaledAndShifted(E, fMul(c, c), fMul(R(1, 2), fSub(fDiv(One, fMul(c, c)), One)))[n]

\* C16: for every length-9 F with det(F) > 0 and E its Green-Lagrange strain,
\* decomposeGreenLagrangeStrain(E) returns J = det(F) = sqrt(det(2E + I)) and
\* Ebar = E/J^(2/3) + 0.5*(J^(-2/3) - 1)*I, the Green-Lagrange strain of F/J^(1/3).
C16_IsochoricDecomposition ==
    (Returns(DecomposeCalls) /\ Len(in.F) = 9 /\ Det3(in.F)[1] > 0)
    => /\ err = NULL
       /\ out.J = Det3(in.F)
       /\ IsIsochoricSplit(in.E, out.Ebar, out.J, Root(out.J, 3))
       /\ out.Ebar = greenLagrangeLoop(Over(in.F, Root(out.J, 3)))

C16_Witness ==
    /\ Returns({"decomposeGreenLagrangeStrain"})
    /\ in.F = <<One, One, Zero, Zero, R(2, 1), Zero, Zero, Zero, R(4, 1)>>
    /\ err = NULL
    /\ out.J = R(8, 1)
    /\ out.Ebar = <<R(-3, 8), R(1, 8), Zero, R(1, 8), R(1, 8), Zero, Zero, Zero, R(3, 2)>>

\* C17: for a length-9 E, decomposeGreenLagrangeStrain fails with a domain error if
\* and only if det(2E + I) <= 0 (0 included), and on that failure Ebar and J are
\* not written.
C17_NonPhysicalStrainRejected ==
    (Returns(DecomposeCalls) /\ Len(in.E) = 9)
    => /\ err # NULL <=> fLeq(Det3(AddEye(ScalarTimes(R(2, 1), in.E))), Zero)
       /\ err # NULL =>
            /\ Cause(err).msg = "the determinant of the Green-Lagrange strain is negative"
            /\ out.Ebar = pre.Ebar
            /\ out.J = pre.J

C17_Witness ==
    /\ Returns({"decomposeGreenLagrangeStrain"})
    /\ in.E = <<R(-1, 2), Zero, Zero, Zero, Zero, Zero, Zero, Zero, Zero>>
    /\ Det3(AddEye(ScalarTimes(R(2, 1), in.E))) = Zero
    /\ err # NULL
    /\ pre = StaleTensor
    /\ out.J = R(7, 2)

\* C18: decomposeGreenLagrangeStrain is idempotent: whenever it succeeds with
\* (Ebar, J), applying it to Ebar succeeds and returns J = 1 and Ebar itself, and
\* det(2*Ebar + I) = 1.
C18_DecompositionIdempotent ==
    (Returns(DecomposeCalls) /\ err = NULL)
    => /\ decomposeGreenLagrangeStrain(out.Ebar, pre).err = NULL
       /\ decomposeGreenLagrangeStrain(out.Ebar, pre).J = One
       /\ decomposeGreenLagrangeStrain(out.Ebar, pre).Ebar = out.Ebar
       /\ Det3(AddEye(ScalarTimes(R(2, 1), out.Ebar))) = One

C18_Witness ==
    /\ Returns({"decomposeGreenLagrangeStrainFlatJ"})
    /\ err = NULL
    /\ out.J = R(1, 8)
    /\ out.Ebar = floatVector(9, Zero)
    /\ in.E # out.Ebar

(***************************************************************************)
(* Properties of the stress mappers.                                       *)
(***************************************************************************)
PushForwardCalls == {"pushForwardPK2Stress", "pushForwardPK2StressFlatJ", "pushForwardPK2StressJ"}

PullBackCalls == {"pullBackCauchyStress", "pullBackCauchyStressFlatJ", "pullBackCauchyStressJ"}

\* sum_{I,J} F_{iI} * S_{IJ} * F_{jJ}
FSFt(S, F, i, j) ==
    Sum3(Sum3(fMul(fMul(At(F, i, 0), At(S, 0, 0)), At(F, j, 0)),
              fMul(fMul(At(F, i, 0), At(S, 0, 1)), At(F, j, 1)),
              fMul(fMul(At(F, i, 0), At(S, 0, 2)), At(F, j, 2))),
         Sum3(fMul(fMul(At(F, i, 1), At(S, 1, 0)), At(F, j, 0)),
              fMul(fMul(At(F, i, 1), At(S, 1, 1)), At(F, j, 1)),
              fMul(fMul(At(F, i, 1), At(S, 1, 2)), At(F, j, 2))),
         Sum3(fMul(fMul(At(F, i, 2), At(S, 2, 0)), At(F, j, 0)),
              fMul(fMul(At(F, i, 2), At(S, 2, 1)), At(F, j, 1)),
              fMul(fMul(At(F, i, 2), At(S, 2, 2)), At(F, j, 2))))

\* C19: for every length-9 PK2 stress S and length-9 F with det(F) != 0,
\* mapPK2toCauchy and pushForwardPK2Stress both return
\* sigma_{ij} = (1/det F) * sum_{I,J} F_{iI}*S_{IJ}*F_{jJ}, hence the same stress.
C19_CauchyStressOfPK2 ==
    (/\ Returns(PushForwardCalls \cup {"mapPK2toCauchy"})
     /\ Len(in.PK2) = 9 /\ Len(in.F) = 9
     /\ Det3(in.F) # Zero)
    => /\ err = NULL
       /\ Len(out.cauchyStress) = 9
       /\ \A i \in 0..2, j \in 0..2 :
            out.cauchyStress[3 * i + j + 1] = fMul(fDiv(One, Det3(in.F)), FSFt(in.PK2, in.F, i, j))
       /\ call = "mapPK2toCauchy" => out.cauchyStress = pushForwardPK2Stress(in.PK2, in.F, pre).cauchyStress
       /\ call # "mapPK2toCauchy" => out.cauchyStress = mapPK2toCauchy(in.PK2, in.F, pre).cauchyStress

C19_Witness ==
    /\ Returns({"pushForwardPK2Stress"})
    /\ in.PK2 = SampleTensor(1) /\ in.F = SampleTensor(2)
    /\ Det3(in.F) # Zero /\ Det3(in.F) # One
    /\ err = NULL
    /\ out.cauchyStress # matrixMultiply(matrixMultiply(in.F, in.PK2, dim, FALSE, FALSE), in.F, dim, FALSE, TRUE)
    /\ \A n \in 1..9 : Finite(out.cauchyStress[n])

\* C20 (as claimed): mapPK2toCauchy, pushForwardPK2Stress and pullBackCauchyStress
\* each fail with a shape error whenever the stress and F differ in length or
\* either of them is not of length 9, for example when both have length 1, 4 or 16.
C20_StressShapeChecked ==
    (/\ Returns(PushForwardCalls \cup PullBackCalls \cup {"mapPK2toCauchy"})
     /\ \/ Len(IF call \in PullBackCalls THEN in.cauchyStress ELSE in.PK2) # Len(in.F)
        \/ Len(IF call \in PullBackCalls THEN in.cauchyStress ELSE in.PK2) # 9
        \/ Len(in.F) # 9)
    => err # NULL

(***************************************************************************)
(* The library as a whole: one call of any overload modelled above, on a   *)
(* caller that holds output variables for all of them.                     *)
(***************************************************************************)
Merged(a, b) == [f \in DOMAIN a \cup DOMAIN b |-> IF f \in DOMAIN a THEN a[f] ELSE b[f]]

InitLibrary ==
    /\ pc = "start"
    /\ call = "none"
    /\ in = [Dt |-> Zero]
    /\ pre \in {Merged(FreshMidpoint, Merged(FreshEvolveF, FreshTensor)),
                Merged(StaleMidpoint, Merged(StaleEvolveF, StaleTensor))}
    /\ out = pre
    /\ err = NULL

NextLibrary ==
    \/ NextMidpoint
    \/ NextEvolveF
    \/ NextTensor

SpecLibrary == InitLibrary /\ [][NextLibrary]_vars

(***************************************************************************)
(* Properties of the Jacobian overloads.                                   *)
(***************************************************************************)
\* the overloads that return Jacobians and have a value-only counterpart
JacobianOverloads ==
    (VectorCalls \cup ScalarCalls \cup EvolveCalls \cup RightCauchyGreenCalls \cup GreenLagrangeCalls
     \cup DecomposeCalls \cup PushForwardCalls \cup PullBackCalls
     \cup {"computeDFDtFlatJ", "computeDFDtJ", "computeSymmetricPartFlatJ", "computeSymmetricPartJ"})
    \ {"midpointEvolution", "midpointEvolutionScalar", "evolveF", "evolveFNoDF", "computeRightCauchyGreen",
       "computeGreenLagrangeStrain", "decomposeGreenLagrangeStrain", "pushForwardPK2Stress",
       "pullBackCauchyStress"}

\* the errorOut of the value-only overload on the inputs of the call
ValueOnlyError ==
    IF call \in VectorCalls THEN midpointEvolution(in.Dt, in.Ap, in.DApDt, in.DADt, in.alpha, pre).err
    ELSE IF call \in ScalarCalls
    THEN midpointEvolutionScalar(in.Dt, in.Ap, in.DApDt, in.DADt, in.alpha, pre).err
    ELSE IF call \in EvolveCalls THEN evolveF(in.Dt, in.Fp, in.Lp, in.L, in.alpha, in.mode, pre).err
    ELSE IF call \in RightCauchyGreenCalls THEN computeRightCauchyGreen(in.F, pre).err
    ELSE IF call \in GreenLagrangeCalls THEN computeGreenLagrangeStrain(in.F, pre).err
    ELSE IF call \in DecomposeCalls THEN decomposeGreenLagrangeStrain(in.E, pre).err
    ELSE IF call \in {"computeDFDtFlatJ", "computeDFDtJ"} THEN computeDFDt(in.L, in.F, pre).err
    ELSE IF call \in {"computeSymmetricPartFlatJ", "computeSymmetricPartJ"}
    THEN computeSymmetricPart(in.A, pre).err
    ELSE IF call \in PushForwardCalls THEN pushForwardPK2Stress(in.PK2, in.F, pre).err
    ELSE IF call \in PullBackCalls THEN pullBackCauchyStress(in.cauchyStress, in.F, pre).err
    ELSE NULL

JacobianOutputs ==
    {"DADADt", "DADADtp", "mDADADt", "mDADADtp",
     "dFdL", "ddFdFp", "dFdFp", "dFdLp", "mdFdL", "mddFdFp", "mdFdFp", "mdFdLp",
     "dCdF", "mdCdF", "dEdF", "mdEdF", "dEbardE", "mdEbardE", "dJdE",
     "dDFDtdL", "dDFDtdF", "mdDFDtdL", "mdDFDtdF", "dSymmAdA", "mdSymmAdA",
     "dCauchyStressdPK2", "dCauchyStressdF", "mdCauchyStressdPK2", "mdCauchyStressdF",
     "dPK2dCauchyStress", "dPK2dF", "mdPK2dCauchyStress", "mdPK2dF"}

\* C11: for every operation with a value-only and a Jacobian overload, whenever
\* the value-only overload fails on some inputs, the Jacobian overload fails on
\* them too and leaves every Jacobian output as it was before the call.
C11_BaseFailureShortCircuits ==
    (Returns(JacobianOverloads) /\ ValueOnlyError # NULL)
    => /\ err # NULL
       /\ \A f \in JacobianOutputs : out[f] = pre[f]

C11_Witness ==
    /\ Returns({"decomposeGreenLagrangeStrainJ"})
    /\ in.E = <<R(-1, 1), Zero, Zero, Zero, One, Zero, Zero, Zero, One>>
    /\ ValueOnlyError # NULL
    /\ Len(err) = 3
    /\ out.mdEbardE = <<<<R(8, 1)>>>>
    /\ out.dJdE = <<R(9, 1)>>

(***************************************************************************)
(* rotateMatrix, computeDeformationGradient and the maps between the       *)
(* reference and the current configuration: pullBackVelocityGradient (both *)
(* overloads), pushForwardGreenLagrangeStrain and pullBackAlmansiStrain    *)
(* (the overloads without Jacobians).                                      *)
(***************************************************************************)
\* ( unsigned int )std::sqrt( n ), ( unsigned int )std::pow( n, 0.5 ): the root, truncated
truncatedRoot(n) == IF n = 0 THEN 0 ELSE CHOOSE d \in 1..n : d * d <= n /\ n < (d + 1) * (d + 1)

\* rotatedA[ i * dim + j ] += Q[ I * dim + i ] * A[ I * dim + J ] * Q[ J * dim + j ],
\* I outermost, onto what rotatedA holds after the resize
rotationLoop(A, Q, d, rotatedA) ==
    Stored([n \in 1..Len(rotatedA) |->
        IF n > d * d THEN rotatedA[n]
        ELSE Accumulated([m \in 1..(d * d) |->
                 fMul(fMul(Q[d * ((m - 1) \div d) + ((n - 1) \div d) + 1], A[m]),
                      Q[d * ((m - 1) % d) + ((n - 1) % d) + 1])], 1, rotatedA[n])])

\* rotateMatrix for A and Q that are not both empty: dim = sqrt( A.size( ) ),
\* truncated, and the second check is A.size( ) % dim != 0; rotatedA.resize( A.size( ) )
\* keeps the leading components rotatedA had and sets new ones to zero
rotateMatrix(A, Q, o) ==
    IF Len(A) # Len(Q)
    THEN [o EXCEPT !.err = Failure("rotateMatrix", "A and Q must have the same number of values")]
    ELSE IF Len(A) % truncatedRoot(Len(A)) # 0
    THEN [o EXCEPT !.err = Failure("rotateMatrix", "A must be square")]
    ELSE [o EXCEPT !.rotatedA = rotationLoop(A, Q, truncatedRoot(Len(A)),
                                              Stored([i \in 1..Len(A) |->
                                                  IF i <= Len(o.rotatedA) THEN o.rotatedA[i] ELSE Zero])),
                   !.err = NULL]

\* a slip that inverts I + gradU
deformationGradientOf_plus(gradU, d, isCurrent) ==
    IF isCurrent
    THEN inverse(Stored([n \in 1..(d * d) |-> fAdd(gradU[n], deltaDirac((n - 1) \div d, (n - 1) % d))]), d)
    ELSE Stored([n \in 1..(d * d) |-> fAdd(gradU[n], deltaDirac((n - 1) \div d, (n - 1) % d))])

\* F = gradU with 1 added on the diagonal, or the inverse of -gradU with 1 added on the diagonal
deformationGradientOf(gradU, d, isCurrent) ==
    IF isCurrent
    THEN inverse(Stored([n \in 1..(d * d) |->
                     fAdd(fNeg(gradU[n]), deltaDirac((n - 1) \div d, (n - 1) % d))]), d)
    ELSE Stored([n \in 1..(d * d) |-> fAdd(gradU[n], deltaDirac((n - 1) \div d, (n - 1) % d))])

\* dFdGradU[ dim * sot_dim * i + sot_dim * j + dim * k + l ] = F[ dim * i + k ] * F[ dim * l + j ],
\* or 1 at sot_dim * i + i of a zero vector
dFdGradUOf(F, d, isCurrent) ==
    IF isCurrent
    THEN FourthOrder(d, LAMBDA i, j, k, l : fMul(F[d * i + k + 1], F[d * l + j + 1]))
    ELSE Stored([n \in 1..(d * d * d * d) |-> deltaDirac((n - 1) \div (d * d), (n - 1) % (d * d))])

\* the check throws (its message also carries the two numbers); nothing is written before it
shapeOfGradU(gradU, o, Rest(_)) ==
    IF Len(gradU) # truncatedRoot(Len(gradU)) * truncatedRoot(Len(gradU))
    THEN [o EXCEPT !.err = Failure("computeDeformationGradient",
                           "The displacement gradienthas values but the dimension has been determined to be")]
    ELSE Rest(truncatedRoot(Len(gradU)))

computeDeformationGradient(gradU, isCurrent, o) ==
    shapeOfGradU(gradU, o, LAMBDA d :
        [o EXCEPT !.F = deformationGradientOf(gradU, d, isCurrent), !.err = NULL])

\* the overload with dFdGradU repeats the code of the other one
computeDeformationGradientJ(gradU, isCurrent, o) ==
    shapeOfGradU(gradU, o, LAMBDA d :
        [o EXCEPT !.F = deformationGradientOf(gradU, d, isCurrent),
                  !.dFdGradU = dFdGradUOf(deformationGradientOf(gradU, d, isCurrent), d, isCurrent),
                  !.err = NULL])

\* inverseDeformationGradient * velocityGradient * deformationGradient
pullBack_L(L, F, Finv) == matrixMultiply(matrixMultiply(Finv, L, dim, FALSE, FALSE), F, dim, FALSE, FALSE)

\* where F is singular the inverse is not finite and neither is the result; no error
pullBackVelocityGradient(L, F, o) ==
    [o EXCEPT !.pullBackL = pullBack_L(L, F, inverse(F, dim)), !.err = NULL]

\* a slip that drops the sign of the first term of dPullBackLdF
velocityTangents_plus(r, F, Finv, term1, term2) ==
    [r EXCEPT !.dPullBackLdL = FourthOrderRows(dim, LAMBDA I, J, k, l :
                                   fMul(Finv[dim * I + k + 1], F[dim * l + J + 1])),
              !.dPullBackLdF = FourthOrderRows(dim, LAMBDA I, J, k, K :
                                   fAdd(fMul(Finv[dim * I + k + 1], term1[dim * K + J + 1]),
                                        fMul(term2[dim * I + k + 1], deltaDirac(J, K))))]

\* dPullBackLdL[ dim I + J ][ dim k + l ] = inverseDeformationGradient[ dim I + k ] * deformationGradient[ dim l + J ];
\* dPullBackLdF[ dim I + J ][ dim k + K ] = -inverseDeformationGradient[ dim I + k ] * term1[ dim K + J ]
\*                                        + term2[ dim I + k ] * deltaDirac( J, K )
velocityTangents(r, F, Finv, term1, term2) ==
    [r EXCEPT !.dPullBackLdL = FourthOrderRows(dim, LAMBDA I, J, k, l :
                                   fMul(Finv[dim * I + k + 1], F[dim * l + J + 1])),
              !.dPullBackLdF = FourthOrderRows(dim, LAMBDA I, J, k, K :
                                   fAdd(fNeg(fMul(Finv[dim * I + k + 1], term1[dim * K + J + 1])),
                                        fMul(term2[dim * I + k + 1], deltaDirac(J, K))))]

\* the overload with the Jacobians repeats the pull-back; term1 is the pull-back
\* computed once more, term2 is inverseDeformationGradient * velocityGradient
pullBackVelocityGradientJ(L, F, o) ==
    velocityTangents([o EXCEPT !.pullBackL = pullBack_L(L, F, inverse(F, dim)), !.err = NULL],
                     F, inverse(F, dim), pullBack_L(L, F, inverse(F, dim)),
                     matrixMultiply(inverse(F, dim), L, dim, FALSE, FALSE))

\* almansiStrain = inverseDeformationGradient^T * ( greenLagrangeStrain * inverseDeformationGradient )
pushForward_E(E, Finv) == matrixMultiply(Finv, matrixMultiply(E, Finv, dim, FALSE, FALSE), dim, TRUE, FALSE)

pushForwardGreenLagrangeStrain(E, F, o) ==
    [o EXCEPT !.almansiStrain = pushForward_E(E, inverse(F, dim)), !.err = NULL]

\* a slip that leaves the transpose out
pullBackAlmansiStrain_untransposed(e, F, o) ==
    [o EXCEPT !.greenLagrangeStrain =
                  matrixMultiply(matrixMultiply(F, e, dim, FALSE, FALSE), F, dim, FALSE, FALSE),
              !.err = NULL]

\* greenLagrangeStrain = ( deformationGradient^T * almansiStrain ) * deformationGradient
pullBackAlmansiStrain(e, F, o) ==
    [o EXCEPT !.greenLagrangeStrain =
                  matrixMultiply(matrixMultiply(F, e, dim, TRUE, FALSE), F, dim, FALSE, FALSE),
              !.err = NULL]

(***************************************************************************)
(* The callers of these functions.                                         *)
(***************************************************************************)
\* the arguments of rotateMatrix: vectors of 0, 1, 2, 3, 4, 5, 6, 8 and 9
\* components, among them the quarter turns about the third axis in two and
\* three dimensions, which are orthogonal
RotationInputs ==
    {<<>>, <<R(2, 1)>>, <<One, R(2, 1)>>, <<One, R(2, 1), R(3, 1)>>,
     <<Zero, R(-1, 1), One, Zero>>, <<One, R(2, 1), R(3, 1), R(4, 1)>>,
     floatVector(5, One), floatVector(6, One), floatVector(8, One),
     <<Zero, R(-1, 1), Zero, One, Zero, Zero, Zero, Zero, One>>, SampleTensor(0), SampleTensor(1)}

\* displacement gradients of 1, 2, 3, 4 and 9 components; I - gradU is singular
\* for the last one
DisplacementGradients ==
    {<<R(1, 2)>>, <<One, R(2, 1)>>, <<One, R(2, 1), R(3, 1)>>, <<R(-1, 1), One, Zero, R(-1, 1)>>,
     <<Zero, One, Zero, Zero, R(-1, 1), Zero, One, Zero, R(1, 2)>>, SampleTensor(0)}

\* the 3D tensors mapped between configurations, and the deformation
\* gradients: those of VolumeSamples, which are invertible, and a singular one
MappedTensors == {SampleTensor(k) : k \in 0..NumSamples}

MappingGradients == VolumeSamples \cup {<<One, One, Zero, One, One, Zero, Zero, Zero, One>>}

FreshMapping ==
    [rotatedA |-> <<>>, F |-> <<>>, dFdGradU |-> <<>>, pullBackL |-> <<>>, dPullBackLdL |-> <<>>,
     dPullBackLdF |-> <<>>, almansiStrain |-> <<>>, greenLagrangeStrain |-> <<>>, err |-> NULL]

\* rotatedA as an earlier rotation of a 3 x 3 tensor left it
StaleMapping ==
    [rotatedA |-> <<One, Zero, Zero, Zero, One, Zero, Zero, Zero, One>>,
     F |-> <<R(3, 1)>>, dFdGradU |-> <<R(4, 1)>>, pullBackL |-> <<R(5, 1)>>,
     dPullBackLdL |-> <<<<R(6, 1)>>>>, dPullBackLdF |-> <<<<R(7, 1)>>>>,
     almansiStrain |-> <<R(8, 1)>>, greenLagrangeStrain |-> <<R(9, 1)>>, err |-> NULL]

InitMapping ==
    /\ pc = "start"
    /\ call = "none"
    /\ in = [F |-> <<>>]
    /\ pre \in {FreshMapping, StaleMapping, [StaleMapping EXCEPT !.rotatedA = <<R(5, 1), R(6, 1)>>]}
    /\ out = pre
    /\ err = NULL

\* with A and Q empty, dim is 0 and A.size( ) % dim is a division by zero,
\* which is undefined: the call ends the program, or it returns having taken
\* the check as failed, or as passed (and then resized rotatedA to nothing)
Call_rotateMatrix ==
    /\ pc = "start"
    /\ \E A \in RotationInputs, Q \in RotationInputs :
         IF Len(A) = 0 /\ Len(Q) = 0
         THEN \/ Returned("rotateMatrix", [A |-> A, Q |-> Q],
                          [out EXCEPT !.err = Failure("rotateMatrix", "A must be square")])
              \/ Returned("rotateMatrix", [A |-> A, Q |-> Q], [out EXCEPT !.rotatedA = <<>>, !.err = NULL])
              \/ /\ pc' = "crashed"
                 /\ call' = "rotateMatrix"
                 /\ in' = [A |-> A, Q |-> Q]
                 /\ UNCHANGED <<pre, out, err>>
         ELSE Returned("rotateMatrix", [A |-> A, Q |-> Q], rotateMatrix(A, Q, out))

Call_computeDeformationGradient ==
    /\ pc = "start"
    /\ \E gradU \in DisplacementGradients, isCurrent \in BOOLEAN :
         \/ Returned("computeDeformationGradient", [gradU |-> gradU, isCurrent |-> isCurrent],
                     computeDeformationGradient(gradU, isCurrent, out))
         \/ Returned("computeDeformationGradientJ", [gradU |-> gradU, isCurrent |-> isCurrent],
                     computeDeformationGradientJ(gradU, isCurrent, out))

Call_pullBackVelocityGradient ==
    /\ pc = "start"
    /\ \E L \in MappedTensors, F \in MappingGradients :
         \/ Returned("pullBackVelocityGradient", [L |-> L, F |-> F], pullBackVelocityGradient(L, F, out))
         \/ Returned("pullBackVelocityGradientJ", [L |-> L, F |-> F], pullBackVelocityGradientJ(L, F, out))

Call_pushForwardGreenLagrangeStrain ==
    /\ pc = "start"
    /\ \E E \in MappedTensors, F \in MappingGradients :
         Returned("pushForwardGreenLagrangeStrain", [E |-> E, F |-> F],
                  pushForwardGreenLagrangeStrain(E, F, out))

\* the Almansi strains handed in are those the push-forward returns
Call_pullBackAlmansiStrain ==
    /\ pc = "start"
    /\ \E E \in MappedTensors, F \in MappingGradients :
         Returned("pullBackAlmansiStrain", [e |-> pushForward_E(E, inverse(F, dim)), F |-> F],
                  pullBackAlmansiStrain(pushForward_E(E, inverse(F, dim)), F, out))

NextMapping ==
    \/ Call_rotateMatrix
    \/ Call_computeDeformationGradient
    \/ Call_pullBackVelocityGradient
    \/ Call_pushForwardGreenLagrangeStrain
    \/ Call_pullBackAlmansiStrain

SpecMapping == InitMapping /\ [][NextMapping]_vars

(***************************************************************************)
(* Properties of the maps between configurations.                          *)
(***************************************************************************)
Transposed(M, d) == Stored([n \in 1..(d * d) |-> M[d * ((n - 1) % d) + ((n - 1) \div d) + 1]])

\* C21: for every length-9 E and invertible length-9 F the push-forward is
\* e = F^{-T} E F^{-1}, the pull-back is E = F^T e F, and pulling back the
\* pushed-forward strain with the same F returns E.
C21_AlmansiRoundTrip ==
    /\ (Returns({"pushForwardGreenLagrangeStrain"}) /\ Det3(in.F) # Zero)
       => /\ err = NULL
          /\ \A i \in 0..2, j \in 0..2 :
               out.almansiStrain[3 * i + j + 1] = FSFt(in.E, Transposed(Inverse3(in.F), 3), i, j)
          /\ pullBackAlmansiStrain(out.almansiStrain, in.F, pre).err = NULL
          /\ pullBackAlmansiStrain(out.almansiStrain, in.F, pre).greenLagrangeStrain = in.E
    /\ Returns({"pullBackAlmansiStrain"})
       => /\ err = NULL
          /\ \A I \in 0..2, J \in 0..2 :
               out.greenLagrangeStrain[3 * I + J + 1] = FSFt(in.e, Transposed(in.F, 3), I, J)

C21_Witness ==
    /\ Returns({"pushForwardGreenLagrangeStrain"})
    /\ in.F = <<One, One, Zero, Zero, R(2, 1), Zero, Zero, Zero, R(4, 1)>>
    /\ in.E = SampleTensor(1)
    /\ err = NULL
    /\ out.almansiStrain # in.E
    /\ \A n \in 1..9 : Finite(out.almansiStrain[n])
    /\ pullBackAlmansiStrain(out.almansiStrain, in.F, pre).greenLagrangeStrain = in.E

\* C22: for every length-9 L and invertible length-9 F, pullBackVelocityGradient
\* returns Lbar = Finv*L*F, dLbar_{IJ}/dL_{kl} = Finv_{Ik}*F_{lJ} and
\* dLbar_{IJ}/dF_{kK} = -Finv_{Ik}*Lbar_{KJ} + (Finv*L)_{Ik}*delta_{JK}; the
\* Jacobian overload returns the same Lbar as the value-only overload.
C22_PulledBackVelocityGradient ==
    (Returns({"pullBackVelocityGradient", "pullBackVelocityGradientJ"}) /\ Det3(in.F) # Zero)
    => /\ err = NULL
       /\ out.pullBackL = MatMul(MatMul(Inverse3(in.F), in.L), in.F)
       /\ call = "pullBackVelocityGradientJ"
          => /\ out.pullBackL = pullBackVelocityGradient(in.L, in.F, pre).pullBackL
             /\ Len(out.dPullBackLdL) = 9 /\ Len(out.dPullBackLdF) = 9
             /\ \A I \in 0..2, J \in 0..2 :
                  /\ Len(out.dPullBackLdL[3 * I + J + 1]) = 9
                  /\ Len(out.dPullBackLdF[3 * I + J + 1]) = 9
                  /\ \A k \in 0..2, l \in 0..2 :
                       /\ out.dPullBackLdL[3 * I + J + 1][3 * k + l + 1]
                            = fMul(At(Inverse3(in.F), I, k), At(in.F, l, J))
                       /\ out.dPullBackLdF[3 * I + J + 1][3 * k + l + 1]
                            = fAdd(fNeg(fMul(At(Inverse3(in.F), I, k), At(out.pullBackL, l, J))),
                                   fMul(At(MatMul(Inverse3(in.F), in.L), I, k), Delta(J, l)))

C22_Witness ==
    /\ Returns({"pullBackVelocityGradientJ"})
    /\ in.F = <<One, One, Zero, Zero, R(2, 1), Zero, Zero, Zero, R(4, 1)>>
    /\ in.L = SampleTensor(2)
    /\ err = NULL
    /\ out.pullBackL # in.L
    /\ \A n \in 1..9 : Finite(out.pullBackL[n])
    /\ \E r \in 1..9, c \in 1..9 : out.dPullBackLdF[r][c] # Zero /\ out.dPullBackLdF[r][c] # out.dPullBackLdL[r][c]

(***************************************************************************)
(* Properties of rotateMatrix.                                             *)
(***************************************************************************)
IsSquare(n) == truncatedRoot(n) * truncatedRoot(n) = n

IsOrthogonal(Q, d) ==
    matrixMultiply(Q, Q, d, TRUE, FALSE) = Stored([n \in 1..(d * d) |-> Delta((n - 1) \div d, (n - 1) % d)])

\* Q^T * A * Q
QtAQ(A, Q, d) == matrixMultiply(matrixMultiply(Q, A, d, TRUE, FALSE), Q, d, FALSE, FALSE)

\* C24 (as claimed): on success rotateMatrix leaves rotatedA equal to Q^T*A*Q
\* whatever rotatedA held before the call, a vector of the same length left by
\* an earlier call included; so rotating A by an orthogonal Q and then by Q^T,
\* into outputs of any prior content, returns A.
C24_RotationOfA ==
    (/\ Returns({"rotateMatrix"})
     /\ err = NULL
     /\ Len(in.A) > 0 /\ IsSquare(Len(in.A)))
    => /\ out.rotatedA = QtAQ(in.A, in.Q, truncatedRoot(Len(in.A)))
       /\ IsOrthogonal(in.Q, truncatedRoot(Len(in.A)))
          => \A prior \in {FreshMapping, StaleMapping} :
               rotateMatrix(out.rotatedA, Transposed(in.Q, truncatedRoot(Len(in.A))), prior).rotatedA = in.A

\* C25 (as claimed): rotateMatrix returns an error and leaves rotatedA
\* untouched whenever A and Q differ in length or their common length is not a
\* perfect square (2, 3, 6, 8, ...), it does not crash on empty arguments, and
\* it returns no error when the common length is a positive perfect square.
C25_RotationShapeChecked ==
    /\ pc # "crashed"
    /\ (Returns({"rotateMatrix"}) /\ (Len(in.A) # Len(in.Q) \/ ~IsSquare(Len(in.A))))
       => (err # NULL /\ out.rotatedA = pre.rotatedA)
    /\ (Returns({"rotateMatrix"}) /\ Len(in.A) = Len(in.Q) /\ IsSquare(Len(in.A)) /\ Len(in.A) > 0)
       => err = NULL

(***************************************************************************)
(* Properties of computeSymmetricPart.                                     *)
(***************************************************************************)
SymmetricPartCalls ==
    {"computeSymmetricPartDim", "computeSymmetricPart", "computeSymmetricPartFlatJ", "computeSymmetricPartJ"}

\* 0.5 * ( delta_ik delta_jl + delta_jk delta_il )
Projector(i, j, k, l) == fMul(R(1, 2), fAdd(fMul(Delta(i, k), Delta(j, l)), fMul(Delta(j, k), Delta(i, l))))

\* what C26 says of a call with d * d components
IsSymmetricPart(A, d) ==
    /\ err = NULL
    /\ Len(out.symmA) = d * d
    /\ \A i \in 0..(d - 1), j \in 0..(d - 1) :
         /\ out.symmA[d * i + j + 1] = fMul(R(1, 2), fAdd(A[d * i + j + 1], A[d * j + i + 1]))
         /\ out.symmA[d * i + j + 1] = out.symmA[d * j + i + 1]
    /\ computeSymmetricPart(out.symmA, pre).symmA = out.symmA
    /\ call = "computeSymmetricPartFlatJ"
       => /\ Len(out.dSymmAdA) = d * d * d * d
          /\ \A i \in 0..(d - 1), j \in 0..(d - 1), k \in 0..(d - 1), l \in 0..(d - 1) :
               out.dSymmAdA[d * d * d * i + d * d * j + d * k + l + 1] = Projector(i, j, k, l)
    /\ call = "computeSymmetricPartJ"
       => /\ Len(out.mdSymmAdA) = d * d
          /\ \A i \in 0..(d - 1), j \in 0..(d - 1), k \in 0..(d - 1), l \in 0..(d - 1) :
               /\ Len(out.mdSymmAdA[d * i + j + 1]) = d * d
               /\ out.mdSymmAdA[d * i + j + 1][d * k + l + 1] = Projector(i, j, k, l)

\* C26: for every A of d*d components computeSymmetricPart returns
\* symmA[d*i+j] = 0.5*(A[d*i+j] + A[d*j+i]), which is symmetric and unchanged by
\* a second application, and the tangent 0.5*(delta_ik*delta_jl + delta_jk*delta_il)
\* whatever A holds; for every other length it fails and writes neither symmA
\* nor the tangent.
C26_SymmetricPart ==
    Returns(SymmetricPartCalls)
    => IF IsSquare(Len(in.A))
       THEN IsSymmetricPart(in.A, truncatedRoot(Len(in.A)))
       ELSE /\ err # NULL
            /\ out.symmA = pre.symmA
            /\ out.dSymmAdA = pre.dSymmAdA
            /\ out.mdSymmAdA = pre.mdSymmAdA

C26_Witness ==
    /\ Returns({"computeSymmetricPartFlatJ"})
    /\ in.A = SampleTensor(1)
    /\ pre = StaleTensor
    /\ err = NULL
    /\ out.symmA # in.A
    /\ Len(out.dSymmAdA) = 81
    /\ out.dSymmAdA[11] = R(1, 2)

(***************************************************************************)
(* Properties of computeDeformationGradient.                               *)
(***************************************************************************)
DeformationGradientCalls == {"computeDeformationGradient", "computeDeformationGradientJ"}

\* I - gradU (sign = -1) or I + gradU (sign = 1)
EyeAnd(gradU, d, sign) ==
    Stored([n \in 1..(d * d) |-> fAdd(Delta((n - 1) \div d, (n - 1) % d), fMul(R(sign, 1), gradU[n]))])

\* what C27 says of a call with d * d components
IsDeformationGradient(gradU, d, isCurrent) ==
    /\ err = NULL
    /\ Len(out.F) = d * d
    /\ ~isCurrent => out.F = EyeAnd(gradU, d, 1)
    /\ (isCurrent /\ determinant(EyeAnd(gradU, d, -1), d) # Zero)
       => /\ matrixMultiply(EyeAnd(gradU, d, -1), out.F, d, FALSE, FALSE) = EyeAnd(gradU, d, 0)
          /\ matrixMultiply(out.F, EyeAnd(gradU, d, -1), d, FALSE, FALSE) = EyeAnd(gradU, d, 0)
    /\ call = "computeDeformationGradientJ"
       => /\ out.F = computeDeformationGradient(gradU, isCurrent, pre).F
          /\ Len(out.dFdGradU) = d * d * d * d
          /\ \A i \in 0..(d - 1), j \in 0..(d - 1), k \in 0..(d - 1), l \in 0..(d - 1) :
               out.dFdGradU[d * d * d * i + d * d * j + d * k + l + 1]
                 = IF isCurrent THEN fMul(out.F[d * i + k + 1], out.F[d * l + j + 1])
                   ELSE Delta(d * i + j, d * k + l)

\* C27: for gradU of d*d components computeDeformationGradient returns
\* F = I + gradU and the identity tangent when isCurrent is false,
\* F = (I - gradU)^{-1} and dF_{ij}/dgradU_{kl} = F_{ik}*F_{lj} at
\* d^3*i + d^2*j + d*k + l when it is true; both overloads return the same F;
\* the call fails when the length of gradU is not a perfect square.
C27_DeformationGradient ==
    Returns(DeformationGradientCalls)
    => IF IsSquare(Len(in.gradU))
       THEN IsDeformationGradient(in.gradU, truncatedRoot(Len(in.gradU)), in.isCurrent)
       ELSE err # NULL

C27_Witness ==
    /\ Returns({"computeDeformationGradientJ"})
    /\ in.gradU = <<R(-1, 1), One, Zero, R(-1, 1)>>
    /\ in.isCurrent
    /\ err = NULL
    /\ out.F = <<R(1, 2), R(1, 4), Zero, R(1, 2)>>
    /\ out.dFdGradU[5] = R(1, 8)

(***************************************************************************)
(* The two representations of a Jacobian.                                  *)
(***************************************************************************)
NestedCalls ==
    {"midpointEvolutionJ", "midpointEvolutionJp", "midpointEvolutionJScalar", "midpointEvolutionJpScalar",
     "evolveFJ", "evolveFJNoDF", "evolveFJFull", "evolveFJFullNoDF",
     "computeRightCauchyGreenJ", "computeGreenLagrangeStrainJ", "decomposeGreenLagrangeStrainJ",
     "computeDFDtJ", "computeSymmetricPartJ", "pushForwardPK2StressJ", "pullBackCauchyStressJ"}

\* what the overload with flat Jacobians returns on the inputs of the call
FlatOfNested ==
    CASE call = "midpointEvolutionJ" -> midpointEvolutionFlatJ(in.Dt, in.Ap, in.DApDt, in.DADt, in.alpha, pre)
      [] call = "midpointEvolutionJp" -> midpointEvolutionFlatJp(in.Dt, in.Ap, in.DApDt, in.DADt, in.alpha, pre)
      [] call = "midpointEvolutionJScalar"
           -> midpointEvolutionFlatJScalar(in.Dt, in.Ap, in.DApDt, in.DADt, in.alpha, pre)
      [] call = "midpointEvolutionJpScalar"
           -> midpointEvolutionFlatJpScalar(in.Dt, in.Ap, in.DApDt, in.DADt, in.alpha, pre)
      [] call = "evolveFJ" -> evolveFFlatJ(in.Dt, in.Fp, in.Lp, in.L, in.alpha, in.mode, pre)
      [] call = "evolveFJNoDF" -> evolveFFlatJNoDF(in.Dt, in.Fp, in.Lp, in.L, in.alpha, in.mode, pre)
      [] call = "evolveFJFull" -> evolveFFlatJFull(in.Dt, in.Fp, in.Lp, in.L, in.alpha, in.mode, pre)
      [] call = "evolveFJFullNoDF" -> evolveFFlatJFullNoDF(in.Dt, in.Fp, in.Lp, in.L, in.alpha, in.mode, pre)
      [] call = "computeRightCauchyGreenJ" -> computeRightCauchyGreenFlatJ(in.F, pre)
      [] call = "computeGreenLagrangeStrainJ" -> computeGreenLagrangeStrainFlatJ(in.F, pre)
      [] call = "decomposeGreenLagrangeStrainJ" -> decomposeGreenLagrangeStrainFlatJ(in.E, pre)
      [] call = "computeDFDtJ" -> computeDFDtFlatJ(in.L, in.F, pre)
      [] call = "computeSymmetricPartJ" -> computeSymmetricPartFlatJ(in.A, pre)
      [] call = "pushForwardPK2StressJ" -> pushForwardPK2StressFlatJ(in.PK2, in.F, pre)
      [] call = "pullBackCauchyStressJ" -> pullBackCauchyStressFlatJ(in.cauchyStress, in.F, pre)

\* the Jacobians the call returns: the floatMatrix and the flat vector that holds the same tangent
NestedJacobians ==
    CASE call \in {"midpointEvolutionJ", "midpointEvolutionJScalar"} -> {<<"mDADADt", "DADADt">>}
      [] call \in {"midpointEvolutionJp", "midpointEvolutionJpScalar"}
           -> {<<"mDADADt", "DADADt">>, <<"mDADADtp", "DADADtp">>}
      [] call \in {"evolveFJ", "evolveFJNoDF"} -> {<<"mdFdL", "dFdL">>}
      [] call = "evolveFJFull"
           -> {<<"mdFdL", "dFdL">>, <<"mddFdFp", "ddFdFp">>, <<"mdFdFp", "dFdFp">>, <<"mdFdLp", "dFdLp">>}
      [] call = "evolveFJFullNoDF"
           -> {<<"mdFdL", "dFdL">>, <<"mdFdFp", "dFdFp">>, <<"mdFdLp", "dFdLp">>}
      [] call = "computeRightCauchyGreenJ" -> {<<"mdCdF", "dCdF">>}
      [] call = "computeGreenLagrangeStrainJ" -> {<<"mdEdF", "dEdF">>}
      [] call = "decomposeGreenLagrangeStrainJ" -> {<<"mdEbardE", "dEbardE">>}
      [] call = "computeDFDtJ" -> {<<"mdDFDtdL", "dDFDtdL">>, <<"mdDFDtdF", "dDFDtdF">>}
      [] call = "computeSymmetricPartJ" -> {<<"mdSymmAdA", "dSymmAdA">>}
      [] call = "pushForwardPK2StressJ"
           -> {<<"mdCauchyStressdPK2", "dCauchyStressdPK2">>, <<"mdCauchyStressdF", "dCauchyStressdF">>}
      [] call = "pullBackCauchyStressJ"
           -> {<<"mdPK2dCauchyStress", "dPK2dCauchyStress">>, <<"mdPK2dF", "dPK2dF">>}

\* the outputs that are not Jacobians
ValueOutputs ==
    CASE call \in VectorCalls \cup ScalarCalls -> {"dA", "A"}
      [] call \in {"evolveFJ", "evolveFJFull"} -> {"dF", "F"}
      [] call \in {"evolveFJNoDF", "evolveFJFullNoDF"} -> {"F"}
      [] call = "computeRightCauchyGreenJ" -> {"C"}
      [] call = "computeGreenLagrangeStrainJ" -> {"E"}
      [] call = "decomposeGreenLagrangeStrainJ" -> {"Ebar", "J", "dJdE"}
      [] call = "computeDFDtJ" -> {"DFDt"}
      [] call = "computeSymmetricPartJ" -> {"symmA"}
      [] call = "pushForwardPK2StressJ" -> {"cauchyStress"}
      [] call = "pullBackCauchyStressJ" -> {"PK2"}

\* the number of components of the tensors (or vectors) of the call, which is
\* n_out and n_in of each of its Jacobians
Components ==
    CASE call \in VectorCalls \cup ScalarCalls -> Len(in.Ap)
      [] call = "computeSymmetricPartJ" -> Len(in.A)
      [] call = "pushForwardPK2StressJ" -> Len(in.PK2)
      [] call = "pullBackCauchyStressJ" -> Len(in.cauchyStress)
      [] OTHER -> 9

IsReshapeOf(nested, flat, n) ==
    /\ Len(nested) = n
    /\ Len(flat) = n * n
    /\ \A r \in 1..n :
         /\ Len(nested[r]) = n
         /\ \A c \in 1..n : nested[r][c] = flat[n * (r - 1) + c]

Interchangeable(flat, n) ==
    /\ flat.err = NULL
    /\ \A p \in NestedJacobians : IsReshapeOf(out[p[1]], flat[p[2]], n)
    /\ \A v \in ValueOutputs : out[v] = flat[v]

\* C28: for every operation that offers both, and every valid input, the nested
\* Jacobian has n_out rows of n_in entries with nested[r][c] = flat[n_in*r + c],
\* and the other outputs of the two overloads are equal.
C28_FlatAndNestedAgree ==
    (Returns(NestedCalls) /\ err = NULL) => Interchangeable(FlatOfNested, Components)

C28_Witness ==
    /\ Returns({"pullBackCauchyStressJ"})
    /\ in.F = SampleTensor(2) /\ in.cauchyStress = SampleTensor(1)
    /\ err = NULL
    /\ Len(out.mdPK2dF) = 9
    /\ out.mdPK2dF[1][2] # out.mdPK2dF[2][1]
    /\ out.mdPK2dF[1][2] = pullBackCauchyStressFlatJ(in.cauchyStress, in.F, pre).dPK2dF[2]

(***************************************************************************)
(* Round trip of the stress mappers.                                       *)
(***************************************************************************)
\* the tangent of the pull-back with respect to the Cauchy stress, as the call returned it
dPK2dCauchyStressAt(A, B, k, l) ==
    IF call = "pullBackCauchyStressJ" THEN out.mdPK2dCauchyStress[3 * A + B + 1][3 * k + l + 1]
    ELSE out.dPK2dCauchyStress[27 * A + 9 * B + 3 * k + l + 1]

PulledBack(sigma, F, detF, Finv) ==
    /\ Len(out.PK2) = 9
    /\ \A A \in 0..2, B \in 0..2 : out.PK2[3 * A + B + 1] = fMul(detF, FSFt(sigma, Finv, A, B))
    /\ pushForwardPK2Stress(out.PK2, F, pre).err = NULL
    /\ pushForwardPK2Stress(out.PK2, F, pre).cauchyStress = sigma
    /\ call # "pullBackCauchyStress" =>
         \A A \in 0..2, B \in 0..2, k \in 0..2, l \in 0..2 :
            dPK2dCauchyStressAt(A, B, k, l) = fMul(fMul(detF, At(Finv, A, k)), At(Finv, B, l))

\* C29: for every length-9 stress and invertible length-9 F, pulling back the
\* pushed-forward S returns S and pushing forward the pulled-back sigma returns
\* sigma; the pull-back is det(F)*Finv*sigma*Finv^T and its tangent with respect
\* to sigma is det(F)*Finv_{Ak}*Finv_{Bl}.
C29_StressRoundTrip ==
    /\ (/\ Returns(PushForwardCalls)
        /\ Len(in.PK2) = 9 /\ Len(in.F) = 9
        /\ Det3(in.F) # Zero)
       => /\ err = NULL
          /\ pullBackCauchyStress(out.cauchyStress, in.F, pre).err = NULL
          /\ pullBackCauchyStress(out.cauchyStress, in.F, pre).PK2 = in.PK2
    /\ (/\ Returns(PullBackCalls)
        /\ Len(in.cauchyStress) = 9 /\ Len(in.F) = 9
        /\ Det3(in.F) # Zero)
       => /\ err = NULL
          /\ PulledBack(in.cauchyStress, in.F, Det3(in.F), Inverse3(in.F))

C29_Witness ==
    /\ Returns({"pullBackCauchyStressFlatJ"})
    /\ in.cauchyStress = SampleTensor(1) /\ in.F = SampleTensor(2)
    /\ Det3(in.F) # Zero /\ Det3(in.F) # One
    /\ err = NULL
    /\ out.PK2 # in.cauchyStress
    /\ out.dPK2dCauchyStress[2] # Zero
    /\ pushForwardPK2Stress(out.PK2, in.F, pre).cauchyStress = in.cauchyStress

(***************************************************************************)
(* evolveF at the two ends of the alpha range.                             *)
(***************************************************************************)
\* ( A * B )_{ij}
RowByColumn(A, B, i, j) ==
    Sum3(fMul(At(A, i, 0), At(B, 0, j)), fMul(At(A, i, 1), At(B, 1, j)), fMul(At(A, i, 2), At(B, 2, j)))

\* F = Fp + Dt * Lp * Fp in mode 1, Fp + Dt * Fp * Lp in mode 2
IsExplicitStep(F, Dt, Fp, Lp, mode) ==
    /\ Len(F) = sot_dim
    /\ \A i \in Ix, j \in Ix :
         At(F, i, j) = fAdd(At(Fp, i, j),
                            fMul(Dt, IF mode = 1 THEN RowByColumn(Lp, Fp, i, j) ELSE RowByColumn(Fp, Lp, i, j)))

\* the call returned the F (and the dF, where the overload has one) of r
SameStep(r) ==
    /\ r.err = NULL
    /\ r.F = out.F
    /\ call \in ExposesDF => r.dF = out.dF

AllZero(flat, nested) ==
    /\ call \in FlatTangentCalls => flat = floatVector(sot_dim * sot_dim, Zero)
    /\ call \in NestedTangentCalls => nested = floatVector(sot_dim, floatVector(sot_dim, Zero))

====
